---- MODULE Spec2Model ----
\* Verification model of the resilience / admission-control layer of
\* bff-file-handler:
\*   - DynamicRateLimiterService.getCurrentLimit   (dynamicRateLimiter.service)
\*   - retryWithBackoff                            (infrastructure/retryWithBackoff.ts)
\*   - createResilientFunction / createCircuitBreaker (infrastructure/resilience)
\*
\* The host is Node.js: one thread, run-to-completion between awaits.  An
\* action is therefore the code between two suspension points of one async
\* function; interleavings happen only at `await`.
EXTENDS Integers, Sequences, FiniteSets, TLC

\* ------------------------------------------------------------------------
\* Bounds of the model
\* ------------------------------------------------------------------------
MaxTime == 3            \* the clock runs 0..MaxTime
NumCallers == 2         \* concurrent callers of getCurrentLimit
MaxSamples == 2         \* metrics probes started in one run
MaxRetriesBound == 3    \* largest maxRetries a caller passes
NumTasks == 2           \* concurrent activations of retryWithBackoff
MaxFires == 3           \* invocations of the resilient function in one run
MaxBreakerTime == 1     \* the clock runs 0..MaxBreakerTime for the breaker
MaxArrivals == 3        \* requests arriving at uploadLimiter in one run
MaxFiles == 4           \* files in one upload request
MaxHealthChecks == 3    \* calls of checkExternalApiHealth in one run
MaxRegistrations == 3   \* calls of AuthServiceImpl.register in one run
MaxHeaderLen == 4       \* pieces of an Authorization header

Callers == 1..NumCallers
Tasks == 1..NumTasks

Max(a, b) == IF a >= b THEN a ELSE b
Min(a, b) == IF a <= b THEN a ELSE b

VARIABLES
  now,                \* Date.now(), in abstract ticks
  cfg,                \* config (src/config/index.ts), fixed after start-up
  cachedLimit,        \* DynamicRateLimiterService.cachedLimit: <<>> is null
  isCheckingMetrics,  \* DynamicRateLimiterService.isCheckingMetrics
  calls,              \* per caller: its current/last getCurrentLimit() call
  samples,            \* number of pidusage() probes started so far
  retryInput,         \* the `options` argument retryWithBackoff is called with
  retry,              \* per task: the activation of retryWithBackoff
  ropts,              \* createResilientFunction's options (retry, breaker, fallback)
  breaker,            \* the circuit breaker of the resilient function
  inv,                \* per task: its invocation of the resilient function
  fires,              \* number of breaker.fire() calls so far
  gate,               \* concurrencyLimiter: its size, held slots and queue
  ops,                \* per submitted operation: its passage through the gate
  serving,            \* the arrival whose request the POST handler is serving
  arr,                \* per caller: its current/last arrival at uploadLimiter
  hits,               \* per identity: the window counter of uploadLimiter
  arrivals,           \* number of arrivals so far
  upload,             \* one POST /files request: its files, results, response
  breakers,           \* the CircuitBreaker objects constructed so far, in order
  health,             \* per caller: its call of checkExternalApiHealth
  users,              \* the users array of the auth service
  reg,                \* per caller: its call of register
  registrations,      \* number of register calls so far
  authn               \* one request passing through authenticate

limiterVars == <<cfg, cachedLimit, isCheckingMetrics, calls, samples>>

\* ------------------------------------------------------------------------
\* config/index.ts  (values come from the environment; defaults in the file)
\* ------------------------------------------------------------------------
\* highLoadLimitFactor is a float in the code; here it is the rational
\* highLoadLimitFactorPct / 100 (25 and 50 are exact in binary floating point).
Configs ==
  [ rateLimitMax            : {1, 10},
    cpuThresholdPercent     : {80},
    memoryThresholdPercent  : {80},
    highLoadLimitFactorPct  : {25, 50},
    cacheDurationMs         : {2} ]

\* Values a metrics sample can take: below, at and above the threshold.
CpuSamples == {50, 80, 85}
MemSamples == {50, 85}

\* ------------------------------------------------------------------------
\* DynamicRateLimiterService
\* ------------------------------------------------------------------------
NoCall == [pc |-> "idle", t |-> 0, kind |-> "none", ret |-> 0,
           cpu |-> 0, mem |-> 0, ts |-> 0]

\* line 18: this.cachedLimit && now - this.cachedLimit.timestamp < cacheDurationMs
CacheIsFresh_Inverted(t) ==
  /\ cachedLimit # <<>>
  /\ t - cachedLimit[1].timestamp > cfg.cacheDurationMs
CacheIsFresh_NonStrict(t) ==
  /\ cachedLimit # <<>>
  /\ t - cachedLimit[1].timestamp <= cfg.cacheDurationMs
CacheIsFresh(t) ==
  /\ cachedLimit # <<>>
  /\ t - cachedLimit[1].timestamp < cfg.cacheDurationMs

\* line 22: if (this.isCheckingMetrics)
ProbeInProgress_Unchecked == FALSE
ProbeInProgress == isCheckingMetrics

\* line 24: this.cachedLimit ? this.cachedLimit.limit : config.rateLimitMax
CachedOrDefault_AlwaysDefault == cfg.rateLimitMax
CachedOrDefault ==
  IF cachedLimit # <<>> THEN cachedLimit[1].limit ELSE cfg.rateLimitMax

\* lines 49-52: Math.max(1, Math.floor(rateLimitMax * highLoadLimitFactor))
ReducedLimit ==
  Max(1, (cfg.rateLimitMax * cfg.highLoadLimitFactorPct) \div 100)

\* lines 43-61: the limit computed from one sample
ComputeLimit_NonStrict(cpu, mem) ==
  IF cpu >= cfg.cpuThresholdPercent \/ mem >= cfg.memoryThresholdPercent
  THEN ReducedLimit
  ELSE cfg.rateLimitMax
ComputeLimit(cpu, mem) ==
  IF cpu > cfg.cpuThresholdPercent \/ mem > cfg.memoryThresholdPercent
  THEN ReducedLimit
  ELSE cfg.rateLimitMax

\* lines 15-30: getCurrentLimit() from its entry to its return or to the
\* `await pidusage(...)`.  No await separates the checks from the assignment
\* of isCheckingMetrics, so the three branches are one step.
getCurrentLimit(c) ==
  /\ calls[c].pc # "awaiting"
  /\ IF CacheIsFresh(now)
     THEN /\ calls' = [calls EXCEPT ![c] =
                 [NoCall EXCEPT !.pc = "returned", !.t = now, !.kind = "cache",
                                !.ret = cachedLimit[1].limit,
                                !.ts = cachedLimit[1].timestamp]]
          /\ UNCHANGED <<cachedLimit, isCheckingMetrics, samples>>
     ELSE IF ProbeInProgress
     THEN /\ calls' = [calls EXCEPT ![c] =
                 [NoCall EXCEPT !.pc = "returned", !.t = now,
                                !.kind = "inprogress", !.ret = CachedOrDefault]]
          /\ UNCHANGED <<cachedLimit, isCheckingMetrics, samples>>
     ELSE /\ samples < MaxSamples
          /\ isCheckingMetrics' = TRUE
          /\ samples' = samples + 1
          /\ calls' = [calls EXCEPT ![c] =
                 [NoCall EXCEPT !.pc = "awaiting", !.t = now]]
          /\ UNCHANGED cachedLimit
  /\ UNCHANGED <<now, cfg>>

\* lines 16 and 63: the timestamp cached is `now`, read at the entry of the
\* call, before the probe
ComputedAt_AtCompletion(c) == now
ComputedAt(c) == calls[c].t

\* lines 71-73: finally { this.isCheckingMetrics = false }, whether the
\* probe succeeded (ok) or failed
MarkerAfterProbe_OnSuccessOnly(ok) == ~ok
MarkerAfterProbe(ok) == FALSE

\* lines 30-64 and 71-73: pidusage resolved; compute, cache, return; finally.
ProbeResolved(c) ==
  /\ calls[c].pc = "awaiting"
  /\ \E cpu \in CpuSamples, mem \in MemSamples :
       LET currentLimit == ComputeLimit(cpu, mem) IN
       /\ cachedLimit' = << [limit |-> currentLimit, timestamp |-> ComputedAt(c)] >>
       /\ calls' = [calls EXCEPT ![c] =
              [@ EXCEPT !.pc = "returned", !.kind = "probe_ok",
                        !.ret = currentLimit, !.cpu = cpu, !.mem = mem]]
  /\ isCheckingMetrics' = MarkerAfterProbe(TRUE)
  /\ UNCHANGED <<now, cfg, samples>>

\* line 70: return config.rateLimitMax
FailedSampleLimit_Cached == CachedOrDefault
FailedSampleLimit == cfg.rateLimitMax

\* lines 65-73: pidusage rejected; log, return rateLimitMax; finally.
ProbeRejected(c) ==
  /\ calls[c].pc = "awaiting"
  /\ calls' = [calls EXCEPT ![c] =
         [@ EXCEPT !.pc = "returned", !.kind = "probe_fail",
                   !.ret = FailedSampleLimit]]
  /\ isCheckingMetrics' = MarkerAfterProbe(FALSE)
  /\ UNCHANGED <<now, cfg, cachedLimit, samples>>

\* Date.now() advances.
Tick ==
  /\ now < MaxTime
  /\ now' = now + 1

InitLimiter ==
  /\ cfg \in Configs
  /\ cachedLimit = <<>>
  /\ isCheckingMetrics = FALSE
  /\ calls = [c \in Callers |-> NoCall]
  /\ samples = 0

limiterParked ==
  /\ cfg = [rateLimitMax |-> 1, cpuThresholdPercent |-> 80,
            memoryThresholdPercent |-> 80, highLoadLimitFactorPct |-> 50,
            cacheDurationMs |-> 2]
  /\ cachedLimit = <<>>
  /\ isCheckingMetrics = FALSE
  /\ calls = [c \in Callers |-> NoCall]
  /\ samples = 0

\* ------------------------------------------------------------------------
\* infrastructure/retryWithBackoff.ts
\* ------------------------------------------------------------------------
retryVars == <<retryInput, retry>>

\* Delays are held in units of 1/DelayUnit ms, so that multiplying by a
\* backoff factor given in halves (3 = 1.5) stays exact for every delay the
\* loop computes; the code's numbers are IEEE doubles, exact on these values.
DelayUnit == 2 ^ (MaxRetriesBound + 1)
Ms(x) == x * DelayUnit

\* Error messages: strings over a small alphabet.  "t" stands for a message
\* containing the literal 'timeout', "N" for one matching /network/i only
\* through the i flag, "x" for one matching nothing; <<>> is an error with
\* no message.
Messages == { <<"t">>, <<"N">>, <<"x">>, <<>> }
Lower(ch) == IF ch = "N" THEN "n" ELSE ch
ToLower(str) == [i \in 1..Len(str) |-> Lower(str[i])]

\* String.prototype.includes
Includes(str, sub) ==
  \E i \in 0..(Len(str) - Len(sub)) :
    \A j \in 1..Len(sub) : str[i + j] = sub[j]

\* retryableErrors: Array<string | RegExp>; a RegExp here is a literal with
\* the i flag, as in file.routes.ts line 122.
StrPattern(txt) == [kind |-> "string", text |-> txt]
RegExpI(txt) == [kind |-> "regexp", text |-> txt]

\* lines 55-63
isRetryableError_Always(message, retryableErrors) == TRUE
isRetryableError(message, retryableErrors) ==
  \E k \in 1..Len(retryableErrors) :
    IF retryableErrors[k].kind = "string"
    THEN Includes(message, retryableErrors[k].text)
    ELSE Includes(ToLower(message), ToLower(retryableErrors[k].text))

\* lines 11-16: backoffFactor is kept in halves (4 = 2, 3 = 1.5)
defaultRetryOptions ==
  [ maxRetries |-> 3, initialDelayMs |-> Ms(100), maxDelayMs |-> Ms(5000),
    backoffFactor2 |-> 4 ]

OptionKeys ==
  {"maxRetries", "initialDelayMs", "maxDelayMs", "backoffFactor2", "retryableErrors"}

\* line 22: { ...defaultRetryOptions, ...options }
MergeOptions(options) ==
  [k \in (DOMAIN defaultRetryOptions) \cup (DOMAIN options) |->
     IF k \in DOMAIN options THEN options[k] ELSE defaultRetryOptions[k]]

\* The options a caller may pass: any subset of the keys.
Absent == [k \in {} |-> 0]
Given(k, S) == {Absent} \cup {[x \in {k} |-> v] : v \in S}
Join(f, g) == [k \in (DOMAIN f) \cup (DOMAIN g) |-> IF k \in DOMAIN f THEN f[k] ELSE g[k]]
RetryInputs ==
  { Join(a, Join(b, Join(c, Join(d, e)))) :
      a \in Given("maxRetries", 0..MaxRetriesBound),
      b \in Given("initialDelayMs", {Ms(300)}),
      c \in Given("maxDelayMs", {Ms(250)}),
      d \in Given("backoffFactor2", {2, 3}),
      e \in Given("retryableErrors",
                  { <<>>, <<StrPattern(<<"t">>), RegExpI(<<"n">>)>> }) }

NoRetry ==
  [ pc |-> "idle", opts |-> defaultRetryOptions, attempt |-> 0, delay |-> 0,
    lastError |-> [message |-> <<"x">>, attempt |-> -1],
    invoked |-> 0, log |-> <<>>, slept |-> <<>>,
    value |-> -1, error |-> [message |-> <<"x">>, attempt |-> -1] ]

\* new Error('Operation failed'), line 23: thrown by no attempt
OperationFailed == [message |-> <<"x">>, attempt |-> -1]

\* line 35: retryOptions.retryableErrors && !isRetryableError(...)
\* (an array, even an empty one, is truthy)
NonRetryable(opts, message) ==
  /\ "retryableErrors" \in DOMAIN opts
  /\ ~isRetryableError(message, opts.retryableErrors)

\* line 40
BudgetSpent_OffByOne(opts, attempt) == attempt + 1 >= opts.maxRetries
BudgetSpent(opts, attempt) == attempt >= opts.maxRetries

\* line 48
NextDelay_Uncapped(opts, delay) == (delay * opts.backoffFactor2) \div 2
NextDelay(opts, delay) ==
  Min((delay * opts.backoffFactor2) \div 2, opts.maxDelayMs)

\* lines 37 and 41: `throw error`, the error just caught
Thrown_Wrapper(error) == OperationFailed
Thrown(error) == error

\* lines 18-31: entry, merge of the options, first pass of the loop up to
\* `await fn()`; line 52 when the loop body never runs.
RetryEntry(options) ==
  LET retryOptions == MergeOptions(options) IN
    IF 0 <= retryOptions.maxRetries
    THEN [NoRetry EXCEPT !.pc = "awaitFn", !.opts = retryOptions,
                         !.delay = retryOptions.initialDelayMs,
                         !.lastError = OperationFailed,
                         !.attempt = 0, !.invoked = 1]
    ELSE [NoRetry EXCEPT !.pc = "thrown", !.opts = retryOptions,
                         !.error = OperationFailed]

retryWithBackoff(t, options) ==
  /\ retry[t].pc = "idle"
  /\ retry' = [retry EXCEPT ![t] = RetryEntry(options)]

\* line 31: fn() resolved; its value is returned.  The value of attempt k
\* is modelled as k.
FnResolved(t) ==
  /\ retry[t].pc = "awaitFn"
  /\ retry' = [retry EXCEPT ![t] =
        [@ EXCEPT !.pc = "returned", !.value = retry[t].attempt,
                  !.log = Append(@, [ok |-> TRUE, message |-> <<>>])]]

\* lines 32-46: fn() rejected with an error carrying `message`.
FnRejected(t, message) ==
  /\ retry[t].pc = "awaitFn"
  /\ LET a == retry[t].attempt
         error == [message |-> message, attempt |-> a]
         rec == [retry[t] EXCEPT !.lastError = error, !.log = Append(@, [ok |-> FALSE, message |-> message])]
     IN IF NonRetryable(rec.opts, message) \/ BudgetSpent(rec.opts, a)
        THEN retry' = [retry EXCEPT ![t] =
               [rec EXCEPT !.pc = "thrown", !.error = Thrown(error)]]
        ELSE retry' = [retry EXCEPT ![t] =
               [rec EXCEPT !.pc = "sleeping", !.slept = Append(@, rec.delay)]]

\* lines 46-48 and 26-31: sleep(delay) elapsed; next delay; attempt++; the
\* loop test; fn() is called again (line 52 if the test fails).
SleepElapsed(t) ==
  /\ retry[t].pc = "sleeping"
  /\ LET rec == [retry[t] EXCEPT !.delay = NextDelay(retry[t].opts, @),
                                 !.attempt = @ + 1]
     IN IF rec.attempt <= rec.opts.maxRetries
        THEN retry' = [retry EXCEPT ![t] =
               [rec EXCEPT !.pc = "awaitFn", !.invoked = @ + 1]]
        ELSE retry' = [retry EXCEPT ![t] =
               [rec EXCEPT !.pc = "thrown", !.error = rec.lastError]]

InitRetry ==
  /\ retryInput \in RetryInputs
  /\ retry = [t \in Tasks |-> NoRetry]

retryParked ==
  /\ retryInput = Absent
  /\ retry = [t \in Tasks |-> NoRetry]


\* ------------------------------------------------------------------------
\* infrastructure/circuitBreaker.ts and infrastructure/resilience.ts
\* ------------------------------------------------------------------------
resilientVars == <<ropts, breaker, inv, fires>>

\* The breaker is an opossum CircuitBreaker (circuitBreaker.ts line 11).  Its
\* state machine is not among the repository's files; the definitions from
\* BreakerConfigs to HalfOpenTimer follow section 4.2 of the specification:
\* closed / open / halfOpen, a rolling window of outcomes, one trial call.
\* Time is in ticks of resetTimeout (file.routes.ts lines 124-128:
\* resetTimeout 10000, errorThresholdPercentage 50, rollingCountTimeout 30000).
BreakerConfigs ==
  [ resetTimeout : {1}, errorThresholdPercentage : {50},
    rollingCountTimeout : {1} ]

\* stats counts every outcome ever recorded; window holds the recent ones.
NewBreaker ==
  [ state |-> "closed", openedAt |-> 0, trial |-> 0, window |-> <<>>,
    stats |-> [successes |-> 0, failures |-> 0] ]

Count(stats, ok) ==
  IF ok THEN [stats EXCEPT !.successes = @ + 1]
        ELSE [stats EXCEPT !.failures = @ + 1]

\* The outcomes recorded within the last rollingCountTimeout before t.
InWindow(window, t) ==
  SelectSeq(window, LAMBDA e : t - e.t < ropts.circuitBreaker.rollingCountTimeout)

Failures(window) == Cardinality({i \in 1..Len(window) : ~window[i].ok})

\* The failure percentage of the window exceeds errorThresholdPercentage.
ExceedsThreshold_NonStrict(window) ==
  /\ Len(window) > 0
  /\ Failures(window) * 100 >= ropts.circuitBreaker.errorThresholdPercentage * Len(window)
ExceedsThreshold(window) ==
  /\ Len(window) > 0
  /\ Failures(window) * 100 > ropts.circuitBreaker.errorThresholdPercentage * Len(window)

\* fire() reaches the wrapped function: closed, or halfOpen with no trial
\* outstanding.
LetsThrough_WhenOpen(b) == TRUE
LetsThrough_AnyHalfOpen(b) == b.state \in {"closed", "halfOpen"}
LetsThrough(b) ==
  \/ b.state = "closed"
  \/ b.state = "halfOpen" /\ b.trial = 0

\* The breaker after the wrapped call of task c settled at time t.
TrialSettled_StaysHalfOpen(b, ok, w, t) ==
  IF ok
  THEN [b EXCEPT !.state = "closed", !.trial = 0, !.window = <<>>]
  ELSE [b EXCEPT !.trial = 0, !.window = w]
TrialSettled(b, ok, w, t) ==
  IF ok
  THEN [b EXCEPT !.state = "closed", !.trial = 0, !.window = <<>>]
  ELSE [b EXCEPT !.state = "open", !.openedAt = t, !.trial = 0, !.window = w]

BreakerAfterOutcome(b, c, ok, t) ==
  LET w == InWindow(Append(b.window, [t |-> t, ok |-> ok]), t)
      r == [b EXCEPT !.stats = Count(@, ok)]
  IN IF b.state = "halfOpen" /\ b.trial = c
     THEN TrialSettled(r, ok, w, t)
     ELSE IF b.state = "closed" /\ ExceedsThreshold(w)
     THEN [r EXCEPT !.state = "open", !.openedAt = t, !.window = w]
     ELSE [r EXCEPT !.window = w]

\* resetTimeout has elapsed since the breaker opened.
ResetElapsed_AtOnce(b) == TRUE
ResetElapsed(b) == now - b.openedAt >= ropts.circuitBreaker.resetTimeout

\* resetTimeout after the breaker opened, its timer makes it halfOpen.
HalfOpenTimer ==
  /\ breaker.state = "open"
  /\ ResetElapsed(breaker)
  /\ breaker' = [breaker EXCEPT !.state = "halfOpen", !.trial = 0]

\* resilience.ts ----------------------------------------------------------
\* options.retry of a resilient function (file.routes.ts lines 117-123:
\* maxRetries 3, 200 ms, 2000 ms, factor 1.5, four patterns); here with one
\* retry, which is enough for an invocation to make more than one attempt.
ResilientRetryInputs ==
  { [ maxRetries |-> m, initialDelayMs |-> Ms(200), maxDelayMs |-> Ms(2000),
      backoffFactor2 |-> 3,
      retryableErrors |-> <<StrPattern(<<"t">>), RegExpI(<<"n">>)>> ] :
    m \in {1} }

\* options.fallbackValue: undefined, a plain value, or a function (line 25-26)
FallbackKinds == {"none", "static", "computed"}

ResilientOptions ==
  [ retry : ResilientRetryInputs, circuitBreaker : BreakerConfigs,
    fallbackValue : FallbackKinds ]

\* Errors the raw operation rejects with in the resilient function.
RawMessages == { <<"t">>, <<"x">> }

NoError == [message |-> <<>>, attempt |-> -3]
\* the error fire() rejects with when it short-circuits
CircuitOpen == [message |-> <<"o">>, attempt |-> -2]

\* the error a computed fallback throws
FallbackError == [message |-> <<"f">>, attempt |-> -4]

\* fb: what answered the failure: "static", or a computed fallback that
\* "returned" or "threw"; args: the arguments the fallback was called with.
NoResult == [kind |-> "none", value |-> -1, error |-> NoError, args |-> 0,
             fb |-> "none"]
\* seen: the breaker state the call found; passed: fire() called the wrapped
\* function; trial: it did so as the half-open trial.
NoInv == [pc |-> "idle", seen |-> "none", passed |-> FALSE, trial |-> FALSE,
          result |-> NoResult]

\* lines 21-23: the function the breaker wraps is the whole retried
\* sequence; it settles when retryWithBackoff returns or throws.
WrappedOutcome_NeverSettles(c) == "pending"
WrappedOutcome_PerAttempt(c) ==
  IF retry[c].pc = "returned" THEN "success"
  ELSE IF retry[c].pc \in {"thrown", "sleeping"} THEN "failure"
  ELSE "pending"
WrappedOutcome(c) ==
  IF retry[c].pc = "returned" THEN "success"
  ELSE IF retry[c].pc = "thrown" THEN "failure"
  ELSE "pending"

\* lines 25-40 and 42-50: what the caller of task c gets when fire() fails
\* with `error`; fbOk says whether a computed fallback returns or throws.
\* lines 27-36: the computed fallback is called with the arguments of the
\* call; if it throws, the catch returns null.
ComputedFallback_Propagates(c, fbOk) ==
  IF fbOk
  THEN [NoResult EXCEPT !.kind = "fallback", !.args = c, !.fb = "returned"]
  ELSE [NoResult EXCEPT !.kind = "error", !.error = FallbackError, !.fb = "threw"]
ComputedFallback(c, fbOk) ==
  IF fbOk
  THEN [NoResult EXCEPT !.kind = "fallback", !.args = c, !.fb = "returned"]
  ELSE [NoResult EXCEPT !.kind = "null", !.fb = "threw"]

\* lines 45-49: the wrapper logs the error fire() rejected with and throws
\* that same error.
WrapperError == [message |-> <<"w">>, attempt |-> -5]
Rethrown_Wrapped(error) == WrapperError
Rethrown(error) == error

\* line 44: the wrapper returns what fire() resolved with.
Returned_Fallback(c) == [NoResult EXCEPT !.kind = "fallback", !.fb = "static"]
Returned(c) == [NoResult EXCEPT !.kind = "value", !.value = retry[c].value]

HandleFailure_NoFallback(c, error, fbOk) ==
  [NoResult EXCEPT !.kind = "error", !.error = error]
HandleFailure(c, error, fbOk) ==
  IF ropts.fallbackValue = "none"
  THEN [NoResult EXCEPT !.kind = "error", !.error = Rethrown(error)]
  ELSE IF ropts.fallbackValue = "static"
  THEN [NoResult EXCEPT !.kind = "fallback", !.fb = "static"]
  ELSE ComputedFallback(c, fbOk)

\* Callers are anonymous: a new call takes the lowest task id not in use.
FreeTasks ==
  {c \in Tasks : inv[c].pc # "inFlight" /\ retry[c].pc \notin {"awaitFn", "sleeping"}}
LowestFree ==
  IF FreeTasks = {} THEN 0 ELSE CHOOSE c \in FreeTasks : \A d \in FreeTasks : c <= d

\* lines 42-44: the resilient function is called with the arguments of task
\* c; breaker.fire either calls the wrapped function (lines 21-23, which
\* enters retryWithBackoff and calls the raw operation) or short-circuits.
ResilientCall(c, fbOk) ==
  /\ c = LowestFree
  /\ fires < MaxFires
  /\ fires' = fires + 1
  /\ IF LetsThrough(breaker)
     THEN /\ inv' = [inv EXCEPT ![c] =
                 [NoInv EXCEPT !.pc = "inFlight", !.seen = breaker.state,
                               !.passed = TRUE,
                               !.trial = (breaker.state = "halfOpen")]]
          /\ breaker' = IF breaker.state = "halfOpen"
                        THEN [breaker EXCEPT !.trial = c]
                        ELSE breaker
          /\ retry' = [retry EXCEPT ![c] = RetryEntry(ropts.retry)]
     ELSE /\ inv' = [inv EXCEPT ![c] =
                 [NoInv EXCEPT !.pc = "done", !.seen = breaker.state,
                               !.result = HandleFailure(c, CircuitOpen, fbOk)]]
          /\ UNCHANGED <<breaker, retry>>

\* The wrapped function settled: the breaker records the outcome, and the
\* invocation resolves with the value, the fallback, or the error.
WrappedSettled(c, fbOk) ==
  /\ inv[c].pc = "inFlight"
  /\ WrappedOutcome(c) # "pending"
  /\ LET ok == WrappedOutcome(c) = "success" IN
     /\ breaker' = BreakerAfterOutcome(breaker, c, ok, now)
     /\ inv' = [inv EXCEPT ![c] =
            [@ EXCEPT !.pc = "done",
                      !.result = IF ok
                                 THEN Returned(c)
                                 ELSE HandleFailure(c, retry[c].error, fbOk)]]
  /\ UNCHANGED <<retry, fires>>

InitResilient ==
  /\ ropts \in ResilientOptions
  /\ breaker = NewBreaker
  /\ inv = [c \in Tasks |-> NoInv]
  /\ fires = 0

resilientParked ==
  /\ ropts = [ retry |-> Absent,
               circuitBreaker |-> [resetTimeout |-> 1, errorThresholdPercentage |-> 50,
                                   rollingCountTimeout |-> 1],
               fallbackValue |-> "none" ]
  /\ breaker = NewBreaker
  /\ inv = [c \in Tasks |-> NoInv]
  /\ fires = 0

\* ------------------------------------------------------------------------
\* api/routes/file.routes.ts: concurrencyLimiter
\* ------------------------------------------------------------------------
gateVars == <<gate, ops, serving>>
admissionVars == <<arr, hits, arrivals>>

\* concurrencyLimiter is pLimit(config.maxConcurrentUploads) (line 51).  The
\* p-limit package is not among the repository's files; the definitions
\* NewGate, GateHasRoom, NextWaiting, Dequeue and GateRelease follow section
\* 4.5 of the specification: a fixed number of slots, acquisitions queued in
\* arrival order, the slot released when the guarded call settles.

\* One operation per call of the resilient function; operations are
\* numbered in the order they are submitted.
Ops == 1..MaxFires

\* config.maxConcurrentUploads: at most one slot per task record.
GateSizes == 1..NumTasks

NewGate(size) == [size |-> size, held |-> 0, queue |-> <<>>]

\* ahead: how many operations were waiting when this one was submitted;
\* exit: how the guarded call ended.
NoOp == [pc |-> "idle", task |-> 0, ahead |-> 0, exit |-> "none"]

\* acquire(): fewer than N slots are held.
GateHasRoom_Unbounded(g) == TRUE
GateHasRoom(g) == g.held < g.size

\* The waiting operation served next: the one that arrived first.
NextWaiting_Newest(queue) == queue[Len(queue)]
NextWaiting(queue) == Head(queue)

Dequeue(queue, o) == SelectSeq(queue, LAMBDA q : q # o)

\* The slots given back when a guarded call ended in `exit`.
SlotsReleased_OnSuccessOnly(exit) == IF exit = "value" THEN 1 ELSE 0
SlotsReleased(exit) == 1

\* The task records of the operations holding a slot.
HeldTasks == {ops[o].task : o \in {p \in Ops : ops[p].pc = "running"}}

\* The request an operation belongs to: the first request uploads one file,
\* a second request, handled while the first is in progress, the others.
BatchOf(o) == IF o = 1 THEN 1 ELSE 2

\* line 51: concurrencyLimiter is created once, at module level, and every
\* request's handler submits to it (line 230).
PoolOf_PerRequest(o) ==
  [gate EXCEPT !.held =
     Cardinality({p \in Ops : ops[p].pc = "running" /\ BatchOf(p) = BatchOf(o)})]
PoolOf(o) == gate

\* lines 230-234: concurrencyLimiter(async () => resilientProcessFile(...)),
\* called for each file in turn; the operation joins the queue.
GateSubmit(o) ==
  /\ ops[o].pc = "idle"
  /\ \A p \in Ops : p < o => ops[p].pc # "idle"
  /\ ops' = [ops EXCEPT ![o] =
        [NoOp EXCEPT !.pc = "waiting", !.ahead = Len(gate.queue)]]
  /\ gate' = [gate EXCEPT !.queue = Append(@, o)]

\* A slot is acquired by the next waiting operation, whose guarded function
\* (lines 231-233) calls resilientProcessFile.
GateStart(o, c, fbOk) ==
  /\ gate.queue # <<>>
  /\ GateHasRoom(PoolOf(o))
  /\ o = NextWaiting(gate.queue)
  /\ c \notin HeldTasks
  /\ ResilientCall(c, fbOk)
  /\ gate' = [gate EXCEPT !.held = @ + 1, !.queue = Dequeue(@, o)]
  /\ ops' = [ops EXCEPT ![o] = [@ EXCEPT !.pc = "running", !.task = c]]

\* The guarded call settled (value, fallback, null or error): its slot is
\* released.
GateRelease(o) ==
  /\ ops[o].pc = "running"
  /\ inv[ops[o].task].pc = "done"
  /\ LET exit == inv[ops[o].task].result.kind IN
       /\ ops' = [ops EXCEPT ![o] = [@ EXCEPT !.pc = "done", !.exit = exit]]
       /\ gate' = [gate EXCEPT !.held = @ - SlotsReleased(exit)]

\* No request is in the POST handler.
NoServing == [caller |-> 0, first |-> 0]

InitGate ==
  /\ gate \in {NewGate(size) : size \in GateSizes}
  /\ ops = [o \in Ops |-> NoOp]
  /\ serving = NoServing

gateParked ==
  /\ gate = NewGate(1)
  /\ ops = [o \in Ops |-> NoOp]
  /\ serving = NoServing

\* ------------------------------------------------------------------------
\* api/routes/file.routes.ts: uploadLimiter
\* ------------------------------------------------------------------------
\* uploadLimiter is an express-rate-limit middleware (line 53).  The package
\* is not among the repository's files; the definitions CurrentWindow,
\* Consumption, Throttles and Admit follow section 4.6 of the
\* specification: a counter per identity and fixed window, compared with
\* the limit before it is incremented.  The options handed to it (max,
\* keyGenerator, handler, windowMs) are lines 54-88.

\* config for the admission runs; windowMs is config.rateLimitWindow, in
\* ticks.
AdmissionConfigs ==
  [ rateLimitMax            : {1, 2},
    cpuThresholdPercent     : {80},
    memoryThresholdPercent  : {80},
    highLoadLimitFactorPct  : {50},
    cacheDurationMs         : {2},
    rateLimitWindow         : {2} ]

\* lines 71-73: req.user?.id || req.ip || 'unknown-key'
Identities == {"user", "id-of", "ip", "unknown-key"}

\* What keyGenerator reads of a request: req.user?.id and req.ip, "" when
\* undefined.  Requests come from one address, with or without an
\* authenticated user.
NoRequest == [user |-> "", ip |-> ""]
Requests == { [user |-> "user", ip |-> "ip"], [user |-> "", ip |-> "ip"] }

\* lines 71-73: req.user?.id || req.ip || 'unknown-key'
keyGenerator_Shared(req) == "unknown-key"
keyGenerator(req) ==
  IF req.user # "" THEN req.user
  ELSE IF req.ip # "" THEN req.ip
  ELSE "unknown-key"

NoArrival == [pc |-> "none", req |-> NoRequest, key |-> "none", limit |-> 0,
              used |-> 0, win |-> 0, reported |-> 0, windowMs |-> 0]
NoHits == [window |-> 0, count |-> 0, top |-> 0]

CurrentWindow == now \div cfg.rateLimitWindow

\* The identity's consumption within the active window.
Consumption_NeverReset(key) == hits[key].count
Consumption(key) ==
  IF hits[key].window = CurrentWindow THEN hits[key].count ELSE 0

Throttles(used, limit) == used >= limit

\* top: the largest limit an arrival of this window was admitted under.
Admit(key, limit) ==
  [ window |-> CurrentWindow,
    count |-> Consumption(key) + 1,
    top |-> IF hits[key].window = CurrentWindow
            THEN Max(hits[key].top, limit) ELSE limit ]

\* lines 55-63: max awaits getCurrentLimit() and returns its value (the
\* catch of lines 59-62 is never entered: getCurrentLimit catches its own
\* errors, part_002 lines 65-70).
AppliedMax_Static(c) == cfg.rateLimitMax
AppliedMax(c) == calls[c].ret

\* lines 75-80: the handler awaits getCurrentLimit() once more.
AppliedLimit(c) == calls[c].ret

FreeCallers ==
  {c \in Callers : arr[c].pc \in {"none", "admitted", "throttled", "answered"}}

\* A request arrives: uploadLimiter derives its key (lines 71-73) and asks
\* max for the limit (line 57).
Arrive(c, req) ==
  /\ arrivals < MaxArrivals
  /\ c \in FreeCallers /\ \A d \in FreeCallers : c <= d
  /\ getCurrentLimit(c)
  /\ arr' = [arr EXCEPT ![c] = [NoArrival EXCEPT !.pc = "max", !.req = req,
                                                  !.key = keyGenerator(req)]]
  /\ arrivals' = arrivals + 1
  /\ UNCHANGED hits

\* max returned: the arrival is admitted and counted, or rejected, and
\* then the handler (line 74) starts and asks for the limit again (line 77).
Decide(c) ==
  /\ arr[c].pc = "max"
  /\ calls[c].pc = "returned"
  /\ LET limit == AppliedMax(c)
         used == Consumption(arr[c].key)
         rec == [arr[c] EXCEPT !.limit = limit, !.used = used,
                               !.win = CurrentWindow]
     IN IF Throttles(used, limit)
        THEN /\ getCurrentLimit(c)
             /\ arr' = [arr EXCEPT ![c] = [rec EXCEPT !.pc = "handler"]]
             /\ UNCHANGED hits
        ELSE /\ arr' = [arr EXCEPT ![c] = [rec EXCEPT !.pc = "admitted"]]
             /\ hits' = [hits EXCEPT ![arr[c].key] = Admit(arr[c].key, limit)]
             /\ UNCHANGED <<now, limiterVars>>
  /\ UNCHANGED arrivals

\* lines 82-87: the handler logs the limit and the window and answers 429.
Report(c) ==
  /\ arr[c].pc = "handler"
  /\ calls[c].pc = "returned"
  /\ arr' = [arr EXCEPT ![c] =
        [@ EXCEPT !.pc = "throttled", !.reported = AppliedLimit(c),
                  !.windowMs = cfg.rateLimitWindow]]
  /\ UNCHANGED <<now, limiterVars, hits, arrivals>>

InitAdmission ==
  /\ arr = [c \in Callers |-> NoArrival]
  /\ hits = [k \in Identities |-> NoHits]
  /\ arrivals = 0

admissionParked == InitAdmission

\* ------------------------------------------------------------------------
\* POST /files (file.routes.ts, router.post('/'))
\* ------------------------------------------------------------------------
NoResponse == [status |-> 0, results |-> <<>>, failed |-> <<>>]
NoUpload == [pc |-> "idle", files |-> <<>>, settled |-> {},
             results |-> <<>>, response |-> NoResponse]
Unsettled == [filename |-> 0, processed |-> FALSE, isNull |-> FALSE]

\* part_009 lines 32-35: the result of an item whose fallback threw
Null == [filename |-> 0, processed |-> FALSE, isNull |-> TRUE]

\* line 238: reading .processed of a null result throws a TypeError
FilterThrows(processingResults) ==
  \E i \in DOMAIN processingResults : processingResults[i].isNull

\* line 238: processingResults.filter((result) => !result.processed)
IsFailed_Processed(result) == result.processed
IsFailed(result) == ~result.processed
FailedFiles(processingResults) == SelectSeq(processingResults, IsFailed)

\* lines 248-254: failed is { count, message } or undefined (<<>>)
FailedSection(failedFiles) ==
  IF Len(failedFiles) > 0 THEN << [count |-> Len(failedFiles)] >> ELSE <<>>

\* lines 219-236: the handler up to `await Promise.all(processingPromises)`;
\* an empty req.files is answered 400 at once.
PostFiles(n) ==
  /\ upload.pc = "idle"
  /\ IF n = 0
     THEN upload' = [NoUpload EXCEPT !.pc = "responded",
                                     !.response = [NoResponse EXCEPT !.status = 400]]
     ELSE upload' = [NoUpload EXCEPT !.pc = "processing",
                                     !.files = [i \in 1..n |-> i],
                                     !.results = [i \in 1..n |-> Unsettled]]

\* lines 93-113: processFile returned for file i, through the resilient
\* function and the gate (lines 230-233).
ProcessFileReturned(i) ==
  /\ upload.pc = "processing"
  /\ i \in DOMAIN upload.files /\ i \notin upload.settled
  /\ upload' = [upload EXCEPT !.settled = @ \cup {i},
         !.results[i] = [filename |-> upload.files[i], processed |-> TRUE,
                         isNull |-> FALSE]]

\* lines 129-138: the fallback answered for file i.
FallbackReturned(i) ==
  /\ upload.pc = "processing"
  /\ i \in DOMAIN upload.files /\ i \notin upload.settled
  /\ upload' = [upload EXCEPT !.settled = @ \cup {i},
         !.results[i] = [filename |-> upload.files[i], processed |-> FALSE,
                         isNull |-> FALSE]]

\* part_009 lines 27-35: the fallback called for file i threw; the item
\* resolves with null.
FallbackFailed(i) ==
  /\ upload.pc = "processing"
  /\ i \in DOMAIN upload.files /\ i \notin upload.settled
  /\ upload' = [upload EXCEPT !.settled = @ \cup {i}, !.results[i] = Null]

\* lines 236-263: Promise.all resolved; count the failed files and respond,
\* or, if that throws, pass the error to next (lines 256-263).
Respond ==
  /\ upload.pc = "processing"
  /\ upload.settled = DOMAIN upload.files
  /\ LET processingResults == upload.results IN
     IF FilterThrows(processingResults)
     THEN upload' = [upload EXCEPT !.pc = "error"]
     ELSE LET failedFiles == FailedFiles(processingResults) IN
          upload' = [upload EXCEPT !.pc = "responded",
              !.response = [status |-> 201, results |-> processingResults,
                            failed |-> FailedSection(failedFiles)]]

uploadParked == upload = NoUpload

\* ------------------------------------------------------------------------
\* Breaker instances: resilientProcessFile and HealthService
\* ------------------------------------------------------------------------
\* circuitBreaker.ts lines 11-14: new CircuitBreaker(func, options)
createCircuitBreaker(op) == [op |-> op, fired |-> 0, settled |-> 0]

\* file.routes.ts line 116 / part_009 lines 21-23: the module creates the
\* resilient function, and with it its breaker, once at load time.
ModuleBreakers == << createCircuitBreaker("processFile") >>
FileBreaker == 1

NoHealth == [pc |-> "idle", breaker |-> 0, status |-> "none"]

\* part_009 lines 42-44: an invocation of resilientProcessFile fires the
\* breaker of its closure.
FileFire ==
  /\ breakers[FileBreaker].fired < MaxFires
  /\ breakers' = [breakers EXCEPT ![FileBreaker].fired = @ + 1]
  /\ UNCHANGED health

\* part_009 line 44: that breaker.fire() settled.
FileSettled ==
  /\ breakers[FileBreaker].settled < breakers[FileBreaker].fired
  /\ breakers' = [breakers EXCEPT ![FileBreaker].settled = @ + 1]
  /\ UNCHANGED health

\* health.service.ts lines 50-70: checkExternalApiHealth() builds apiCheck,
\* constructs a breaker around it (line 67) and fires that breaker.
checkExternalApiHealth(c) ==
  /\ health[c].pc # "firing"
  /\ Len(breakers) < Len(ModuleBreakers) + MaxHealthChecks
  /\ LET created == [createCircuitBreaker("apiCheck") EXCEPT !.fired = 1] IN
     /\ breakers' = Append(breakers, created)
     /\ health' = [health EXCEPT ![c] =
            [pc |-> "firing", breaker |-> Len(breakers) + 1, status |-> "none"]]

\* lines 51-58 and 70: apiCheck's timer elapsed; it returns status 'up'.
ApiCheckResolved(c) ==
  /\ health[c].pc = "firing"
  /\ breakers' = [breakers EXCEPT ![health[c].breaker].settled = @ + 1]
  /\ health' = [health EXCEPT ![c].pc = "returned", ![c].status = "up"]

InitHealth ==
  /\ breakers = ModuleBreakers
  /\ health = [c \in Callers |-> NoHealth]

healthParked == InitHealth

\* ------------------------------------------------------------------------
\* AuthServiceImpl.register
\* ------------------------------------------------------------------------
Usernames == {"alice", "bob"}
Emails == {"a@x", "b@x"}

NoReg == [pc |-> "idle", username |-> "", email |-> "", error |-> "none"]

\* lines 27-29: users.find(u => u.username === username || u.email === email)
existingUser(username, email) ==
  \E i \in DOMAIN users :
    users[i].username = username \/ users[i].email = email

\* lines 25-35: register() up to `await this.hashPassword(password)`; a
\* taken username or email throws AuthenticationError.
register(c, username, email) ==
  /\ reg[c].pc # "hashing"
  /\ registrations < MaxRegistrations
  /\ registrations' = registrations + 1
  /\ IF existingUser(username, email)
     THEN reg' = [reg EXCEPT ![c] =
              [pc |-> "thrown", username |-> username, email |-> email,
               error |-> "AuthenticationError"]]
     ELSE reg' = [reg EXCEPT ![c] =
              [pc |-> "hashing", username |-> username, email |-> email,
               error |-> "none"]]
  /\ UNCHANGED users

\* lines 35-49: argon2.hash resolved; build newUser, push it, return it.
HashResolved(c) ==
  /\ reg[c].pc = "hashing"
  /\ users' = Append(users, [username |-> reg[c].username, email |-> reg[c].email])
  /\ reg' = [reg EXCEPT ![c].pc = "returned"]
  /\ UNCHANGED registrations

\* line 35: argon2.hash rejected; register rejects with that error.
HashRejected(c) ==
  /\ reg[c].pc = "hashing"
  /\ reg' = [reg EXCEPT ![c].pc = "thrown", ![c].error = "HashError"]
  /\ UNCHANGED <<users, registrations>>

InitAuth ==
  /\ users = <<>>
  /\ reg = [c \in Callers |-> NoReg]
  /\ registrations = 0

authParked == InitAuth

\* ------------------------------------------------------------------------
\* authenticate (auth middleware) and AuthServiceImpl.verifyToken
\* ------------------------------------------------------------------------
\* A header value is a sequence of pieces: " " is one space character, any
\* other piece is a run of characters without a space; adjacent pieces are
\* concatenated, so <<"Bearer", "good">> is the string "Bearergood".
Pieces == {" ", "Bearer", "bearer", "good", "junk"}
HeaderValues == UNION {[1..n -> Pieces] : n \in 0..MaxHeaderLen}

\* What destructuring yields for a missing element.
Undefined == <<"undefined">>

\* String.prototype.split(' '): the parts between the spaces, empty parts
\* included; the empty string gives one empty part.
RECURSIVE Split(_)
Split(str) ==
  IF str = <<>> THEN << <<>> >>
  ELSE LET rest == Split(Tail(str)) IN
       IF Head(str) = " "
       THEN << <<>> >> \o rest
       ELSE << <<Head(str)>> \o rest[1] >> \o Tail(rest)

\* line 31: const [bearer, token] = authHeader.split(' ')
Destructure(parts) ==
  [bearer |-> parts[1],
   token  |-> IF Len(parts) >= 2 THEN parts[2] ELSE Undefined]

\* !token: undefined and the empty string are falsy
Falsy(token) == token = Undefined \/ token = <<>>

\* line 33: bearer !== 'Bearer' || !token
InvalidFormat_TokenOnly(bearer, token) == Falsy(token)
InvalidFormat(bearer, token) == bearer # <<"Bearer">> \/ Falsy(token)

\* Tokens jwt.verify can accept: signed with config.jwtSecret; such a
\* token is still rejected once it has expired.
SignedTokens == { <<"good">> }

\* lines 39-43: the claims of the decoded token
Decoded(token) == [id |-> "id-of", username |-> "name-of", email |-> "mail-of",
                   token |-> token]

NoUser == [id |-> "", username |-> "", email |-> "", token |-> <<>>]
NoAuthn == [pc |-> "idle", hasHeader |-> FALSE, header |-> <<>>,
            token |-> Undefined, status |-> 0, message |-> "",
            user |-> NoUser, nextCalled |-> FALSE]

\* lines 23-38: authenticate up to `await authService.verifyToken(token)`.
authenticate(hasHeader, header) ==
  /\ authn.pc = "idle"
  /\ LET request == [NoAuthn EXCEPT !.hasHeader = hasHeader, !.header = header] IN
     IF ~hasHeader \/ header = <<>>
     THEN authn' = [request EXCEPT !.pc = "responded", !.status = 401,
                                   !.message = "Authorization header required"]
     ELSE LET d == Destructure(Split(header)) IN
          IF InvalidFormat(d.bearer, d.token)
          THEN authn' = [request EXCEPT !.pc = "responded", !.status = 401,
                                        !.message = "Invalid authorization format"]
          ELSE authn' = [request EXCEPT !.pc = "verifying", !.token = d.token]

\* part_003 lines 78-80 and part_008 lines 38-45: jwt.verify returned the
\* claims; req.user is set and next() is called.
VerifyResolved ==
  /\ authn.pc = "verifying"
  /\ authn.token \in SignedTokens
  /\ authn' = [authn EXCEPT !.pc = "passed", !.user = Decoded(authn.token),
                            !.nextCalled = TRUE]

\* part_003 lines 81-83 and part_008 lines 46-49: jwt.verify threw;
\* verifyToken rejects and the catch answers 401.
VerifyRejected ==
  /\ authn.pc = "verifying"
  /\ authn' = [authn EXCEPT !.pc = "responded", !.status = 401,
                            !.message = "Authentication failed"]

InitAuthn == authn = NoAuthn

authnParked == InitAuthn

appVars == <<upload, breakers, health, users, reg, registrations, authn>>
appParked == uploadParked /\ healthParked /\ authParked /\ authnParked

routesVars == <<gateVars, admissionVars, appVars>>
routesParked == gateParked /\ admissionParked /\ appParked

\* ------------------------------------------------------------------------
\* Specifications
\* ------------------------------------------------------------------------
vars == <<now, limiterVars, retryVars, resilientVars, routesVars>>

Init ==
  /\ now = 0
  /\ InitLimiter
  /\ retryParked
  /\ resilientParked
  /\ routesParked

otherThanLimiter == <<retryVars, resilientVars, routesVars>>

LimiterCall == \E c \in Callers : getCurrentLimit(c) /\ UNCHANGED otherThanLimiter
LimiterResolved == \E c \in Callers : ProbeResolved(c) /\ UNCHANGED otherThanLimiter
LimiterRejected == \E c \in Callers : ProbeRejected(c) /\ UNCHANGED otherThanLimiter
LimiterTick == Tick /\ UNCHANGED <<limiterVars, otherThanLimiter>>

NextLimiter ==
  \/ LimiterCall
  \/ LimiterResolved
  \/ LimiterRejected
  \/ LimiterTick

SpecLimiter == Init /\ [][NextLimiter]_vars

\* retryWithBackoff called directly, one activation, any options.
DirectTask == 1

InitRetryDirect ==
  /\ now = 0
  /\ limiterParked
  /\ InitRetry
  /\ resilientParked
  /\ routesParked

otherThanRetry == <<now, limiterVars, resilientVars, routesVars>>

RetryCall ==
  /\ retryWithBackoff(DirectTask, retryInput)
  /\ UNCHANGED <<retryInput, otherThanRetry>>
RetryFnResolved ==
  /\ FnResolved(DirectTask)
  /\ UNCHANGED <<retryInput, otherThanRetry>>
RetryFnRejected ==
  /\ \E message \in Messages : FnRejected(DirectTask, message)
  /\ UNCHANGED <<retryInput, otherThanRetry>>
RetrySleepElapsed ==
  /\ SleepElapsed(DirectTask)
  /\ UNCHANGED <<retryInput, otherThanRetry>>

NextRetry ==
  \/ RetryCall
  \/ RetryFnResolved
  \/ RetryFnRejected
  \/ RetrySleepElapsed

SpecRetry == InitRetryDirect /\ [][NextRetry]_vars

\* A resilient function used by concurrent tasks.
InitResilientFunction ==
  /\ now = 0
  /\ limiterParked
  /\ retryParked
  /\ InitResilient
  /\ routesParked

ResilientInvoke ==
  /\ \E c \in Tasks, fbOk \in BOOLEAN : ResilientCall(c, fbOk)
  /\ UNCHANGED <<now, limiterVars, routesVars, retryInput, ropts>>
ResilientFnResolved ==
  /\ \E c \in Tasks : FnResolved(c)
  /\ UNCHANGED <<now, limiterVars, routesVars, retryInput, resilientVars>>
ResilientFnRejected ==
  /\ \E c \in Tasks, message \in RawMessages : FnRejected(c, message)
  /\ UNCHANGED <<now, limiterVars, routesVars, retryInput, resilientVars>>
ResilientSleepElapsed ==
  /\ \E c \in Tasks : SleepElapsed(c)
  /\ UNCHANGED <<now, limiterVars, routesVars, retryInput, resilientVars>>
ResilientSettled ==
  /\ \E c \in Tasks, fbOk \in BOOLEAN : WrappedSettled(c, fbOk)
  /\ UNCHANGED <<now, limiterVars, routesVars, retryInput, ropts>>
BreakerHalfOpen ==
  /\ HalfOpenTimer
  /\ UNCHANGED <<now, limiterVars, routesVars, retryVars, ropts, inv, fires>>
BreakerTick ==
  /\ now < MaxBreakerTime
  /\ now' = now + 1
  /\ UNCHANGED <<limiterVars, retryVars, resilientVars, routesVars>>

NextResilient ==
  \/ ResilientInvoke
  \/ ResilientFnResolved
  \/ ResilientFnRejected
  \/ ResilientSleepElapsed
  \/ ResilientSettled
  \/ BreakerHalfOpen
  \/ BreakerTick

SpecResilient == InitResilientFunction /\ [][NextResilient]_vars

\* The same, where every raw attempt settles, every backoff sleep elapses
\* and the continuation of a settled promise runs.
AttemptTerminates(c) ==
  /\ FnResolved(c) \/ \E message \in RawMessages : FnRejected(c, message)
  /\ UNCHANGED <<now, limiterVars, routesVars, retryInput, resilientVars>>
SleepTerminates(c) ==
  /\ SleepElapsed(c)
  /\ UNCHANGED <<now, limiterVars, routesVars, retryInput, resilientVars>>
ContinuationRuns(c) ==
  /\ \E fbOk \in BOOLEAN : WrappedSettled(c, fbOk)
  /\ UNCHANGED <<now, limiterVars, routesVars, retryInput, ropts>>

\* One caller at a time invokes a resilient function whose retry options
\* allow 0..MaxRetriesBound retries.
TerminationOptions ==
  [ retry : { [r EXCEPT !.maxRetries = m] :
                r \in ResilientRetryInputs, m \in 0..MaxRetriesBound },
    circuitBreaker : BreakerConfigs,
    fallbackValue : FallbackKinds ]

InitTermination ==
  /\ now = 0
  /\ limiterParked
  /\ retryParked
  /\ ropts \in TerminationOptions
  /\ breaker = NewBreaker
  /\ inv = [c \in Tasks |-> NoInv]
  /\ fires = 0
  /\ routesParked

TerminationInvoke ==
  /\ \E fbOk \in BOOLEAN : ResilientCall(DirectTask, fbOk)
  /\ UNCHANGED <<now, limiterVars, routesVars, retryInput, ropts>>
TerminationAttempt == AttemptTerminates(DirectTask)
TerminationSleep == SleepTerminates(DirectTask)
TerminationContinuation == ContinuationRuns(DirectTask)

NextTermination ==
  \/ TerminationInvoke
  \/ TerminationAttempt
  \/ TerminationSleep
  \/ TerminationContinuation
  \/ BreakerHalfOpen
  \/ BreakerTick

SpecTermination ==
  /\ InitTermination
  /\ [][NextTermination]_vars
  /\ WF_vars(TerminationAttempt)
  /\ WF_vars(TerminationSleep)
  /\ WF_vars(TerminationContinuation)

\* The upload handler: operations pass the gate to call the resilient
\* function.  A batch is over before resetTimeout has elapsed: a breaker
\* that opens stays open for the rest of the batch.  The fallback is a
\* function, as that of resilientProcessFile (file.routes.ts line 129), or
\* absent, so that guarded calls also end with an error.
InitUploads ==
  /\ now = 0
  /\ limiterParked
  /\ retryParked
  /\ InitResilient
  /\ ropts.fallbackValue \in {"none", "computed"}
  /\ InitGate
  /\ admissionParked
  /\ appParked

\* A promise has settled and its continuation has not run yet: the wrapped
\* call returned or threw (part_009 line 44), a guarded call is done, or a
\* slot is free for a waiting operation.  Node runs these continuations
\* before the next timer or I/O callback.
ContinuationPending ==
  \/ \E c \in Tasks : inv[c].pc = "inFlight" /\ WrappedOutcome(c) # "pending"
  \/ \E o \in Ops : ops[o].pc = "running" /\ inv[ops[o].task].pc = "done"
  \/ gate.queue # <<>> /\ GateHasRoom(PoolOf(NextWaiting(gate.queue)))

UploadSubmit ==
  /\ \E o \in Ops : GateSubmit(o)
  /\ UNCHANGED <<now, limiterVars, retryVars, resilientVars, admissionVars, appVars, serving>>
UploadStart ==
  /\ \E o \in Ops, c \in Tasks, fbOk \in BOOLEAN : GateStart(o, c, fbOk)
  /\ UNCHANGED <<now, limiterVars, retryInput, ropts, admissionVars, appVars, serving>>
UploadRelease ==
  /\ \E o \in Ops : GateRelease(o)
  /\ UNCHANGED <<now, limiterVars, retryVars, resilientVars, admissionVars, appVars, serving>>

UploadFnResolved == ~ContinuationPending /\ ResilientFnResolved
UploadFnRejected == ~ContinuationPending /\ ResilientFnRejected
UploadSleepElapsed == ~ContinuationPending /\ ResilientSleepElapsed

NextUploads ==
  \/ UploadSubmit
  \/ UploadStart
  \/ UploadRelease
  \/ UploadFnResolved
  \/ UploadFnRejected
  \/ UploadSleepElapsed
  \/ ResilientSettled

SpecUploads == InitUploads /\ [][NextUploads]_vars

\* Requests arriving at uploadLimiter, which draws its limit from
\* DynamicRateLimiterService.
InitArrivals ==
  /\ now = 0
  /\ cfg \in AdmissionConfigs
  /\ cachedLimit = <<>>
  /\ isCheckingMetrics = FALSE
  /\ calls = [c \in Callers |-> NoCall]
  /\ samples = 0
  /\ retryParked
  /\ resilientParked
  /\ gateParked
  /\ InitAdmission
  /\ appParked

otherThanAdmission == <<retryVars, resilientVars, gateVars, appVars>>

\* getCurrentLimit() has returned to max or to the handler, whose
\* continuation has not run yet; Node runs it before the next request or
\* I/O callback.
DecisionPending ==
  \E c \in Callers : arr[c].pc \in {"max", "handler"} /\ calls[c].pc = "returned"

AdmissionArrive ==
  /\ ~DecisionPending
  /\ \E c \in Callers, req \in Requests : Arrive(c, req)
  /\ UNCHANGED otherThanAdmission
AdmissionDecide ==
  /\ \E c \in Callers : Decide(c)
  /\ UNCHANGED otherThanAdmission
AdmissionReport ==
  /\ \E c \in Callers : Report(c)
  /\ UNCHANGED otherThanAdmission

AdmissionProbeResolved == ~DecisionPending /\ LimiterResolved
AdmissionProbeRejected == ~DecisionPending /\ LimiterRejected

NextArrivals ==
  \/ AdmissionArrive
  \/ AdmissionDecide
  \/ AdmissionReport
  \/ AdmissionProbeResolved
  \/ AdmissionProbeRejected
  \/ LimiterTick

SpecArrivals == InitArrivals /\ [][NextArrivals]_vars

\* One upload request from its arrival at the handler to its response.
otherThanApp == <<now, limiterVars, retryVars, resilientVars, gateVars, admissionVars>>

InitServices ==
  /\ now = 0
  /\ limiterParked
  /\ retryParked
  /\ resilientParked
  /\ gateParked
  /\ admissionParked

InitBatch == InitServices /\ appParked

BatchPost ==
  /\ \E n \in 0..MaxFiles : PostFiles(n)
  /\ UNCHANGED <<otherThanApp, breakers, health, users, reg, registrations, authn>>
BatchProcessed ==
  /\ \E i \in 1..MaxFiles : ProcessFileReturned(i)
  /\ UNCHANGED <<otherThanApp, breakers, health, users, reg, registrations, authn>>
BatchFallback ==
  /\ \E i \in 1..MaxFiles : FallbackReturned(i)
  /\ UNCHANGED <<otherThanApp, breakers, health, users, reg, registrations, authn>>
BatchFallbackFailed ==
  /\ \E i \in 1..MaxFiles : FallbackFailed(i)
  /\ UNCHANGED <<otherThanApp, breakers, health, users, reg, registrations, authn>>
BatchRespond ==
  /\ Respond
  /\ UNCHANGED <<otherThanApp, breakers, health, users, reg, registrations, authn>>

NextBatch ==
  \/ BatchPost
  \/ BatchProcessed
  \/ BatchFallback
  \/ BatchFallbackFailed
  \/ BatchRespond

SpecBatch == InitBatch /\ [][NextBatch]_vars

\* The breakers of the process: invocations of resilientProcessFile and
\* health checks, in any interleaving.
InitBreakers == InitServices /\ uploadParked /\ InitHealth /\ authParked /\ authnParked

BreakersFileFire == FileFire /\ UNCHANGED <<otherThanApp, upload, users, reg, registrations, authn>>
BreakersFileSettled == FileSettled /\ UNCHANGED <<otherThanApp, upload, users, reg, registrations, authn>>
BreakersHealthCheck ==
  /\ \E c \in Callers : checkExternalApiHealth(c)
  /\ UNCHANGED <<otherThanApp, upload, users, reg, registrations, authn>>
BreakersApiCheckResolved ==
  /\ \E c \in Callers : ApiCheckResolved(c)
  /\ UNCHANGED <<otherThanApp, upload, users, reg, registrations, authn>>

NextBreakers ==
  \/ BreakersFileFire
  \/ BreakersFileSettled
  \/ BreakersHealthCheck
  \/ BreakersApiCheckResolved

SpecBreakers == InitBreakers /\ [][NextBreakers]_vars

\* register calls in any interleaving.
InitRegistrations ==
  InitServices /\ uploadParked /\ healthParked /\ InitAuth /\ authnParked

AuthRegister ==
  /\ \E c \in Callers, username \in Usernames, email \in Emails :
       register(c, username, email)
  /\ UNCHANGED <<otherThanApp, upload, breakers, health, authn>>
AuthHashResolved ==
  /\ \E c \in Callers : HashResolved(c)
  /\ UNCHANGED <<otherThanApp, upload, breakers, health, authn>>
AuthHashRejected ==
  /\ \E c \in Callers : HashRejected(c)
  /\ UNCHANGED <<otherThanApp, upload, breakers, health, authn>>

NextRegistrations ==
  \/ AuthRegister
  \/ AuthHashResolved
  \/ AuthHashRejected

SpecRegistrations == InitRegistrations /\ [][NextRegistrations]_vars

\* One request passing through the authenticate middleware.
InitAuthenticate ==
  InitServices /\ uploadParked /\ healthParked /\ authParked /\ InitAuthn

otherThanAuthn == <<otherThanApp, upload, breakers, health, users, reg, registrations>>

AuthnRequest ==
  /\ \E hasHeader \in BOOLEAN, header \in HeaderValues :
       /\ ~hasHeader => header = <<>>
       /\ authenticate(hasHeader, header)
  /\ UNCHANGED otherThanAuthn
AuthnVerifyResolved == VerifyResolved /\ UNCHANGED otherThanAuthn
AuthnVerifyRejected == VerifyRejected /\ UNCHANGED otherThanAuthn

NextAuthenticate ==
  \/ AuthnRequest
  \/ AuthnVerifyResolved
  \/ AuthnVerifyRejected

SpecAuthenticate == InitAuthenticate /\ [][NextAuthenticate]_vars

\* The file route: router.use(authenticate) (file.routes.ts line 91) is
\* registered before router.post('/', uploadLimiter, ...) (line 215), so a
\* request passes through authenticate first and reaches uploadLimiter
\* when authenticate calls next().
RouteHeaders ==
  { <<>>, <<"good">>, <<"bearer", " ", "good">>,
    <<"Bearer", " ", "good">>, <<"Bearer", " ", "junk">> }

\* What uploadLimiter reads of the request authenticate handed on
\* (part_008 lines 39-43 set req.user).
RequestOf(a) == [user |-> a.user.id, ip |-> "ip"]

\* lines 91 and 215: uploadLimiter runs for the requests authenticate
\* passed on with next().
ReachesUploadLimiter_Unguarded(a) == a.pc # "verifying"
ReachesUploadLimiter(a) == a.nextCalled

\* The rest of the middleware chain after a step of authenticate that
\* left the request as a.
Chain(c, a) ==
  IF ReachesUploadLimiter(a)
  THEN Arrive(c, RequestOf(a))
  ELSE UNCHANGED <<now, limiterVars, admissionVars>>

otherThanRoute ==
  <<retryVars, resilientVars, gateVars, upload, breakers, health, users, reg,
    registrations>>

InitRoute ==
  /\ now = 0
  /\ cfg \in AdmissionConfigs
  /\ cachedLimit = <<>>
  /\ isCheckingMetrics = FALSE
  /\ calls = [c \in Callers |-> NoCall]
  /\ samples = 0
  /\ retryParked
  /\ resilientParked
  /\ gateParked
  /\ InitAdmission
  /\ uploadParked /\ healthParked /\ authParked /\ InitAuthn

\* The request in authenticate has been answered or handed on; the next
\* request enters with a request object of its own.
RouteFree ==
  /\ ~DecisionPending
  /\ authn.pc \in {"responded", "passed"}
  /\ authn' = NoAuthn
  /\ UNCHANGED <<now, limiterVars, admissionVars, otherThanRoute>>
RouteRequest ==
  /\ ~DecisionPending
  /\ \E c \in Callers, hasHeader \in BOOLEAN, header \in RouteHeaders :
       /\ ~hasHeader => header = <<>>
       /\ authenticate(hasHeader, header)
       /\ Chain(c, authn')
  /\ UNCHANGED otherThanRoute
RouteVerifyResolved ==
  /\ ~DecisionPending
  /\ VerifyResolved
  /\ \E c \in Callers : Chain(c, authn')
  /\ UNCHANGED otherThanRoute
RouteVerifyRejected ==
  /\ ~DecisionPending
  /\ VerifyRejected
  /\ \E c \in Callers : Chain(c, authn')
  /\ UNCHANGED otherThanRoute
RouteDecide ==
  /\ \E c \in Callers : Decide(c)
  /\ UNCHANGED <<otherThanRoute, authn>>
RouteReport ==
  /\ \E c \in Callers : Report(c)
  /\ UNCHANGED <<otherThanRoute, authn>>
RouteProbeResolved ==
  /\ ~DecisionPending
  /\ \E c \in Callers : ProbeResolved(c)
  /\ UNCHANGED <<otherThanRoute, admissionVars, authn>>
RouteProbeRejected ==
  /\ ~DecisionPending
  /\ \E c \in Callers : ProbeRejected(c)
  /\ UNCHANGED <<otherThanRoute, admissionVars, authn>>
RouteTick ==
  /\ ~DecisionPending
  /\ Tick
  /\ UNCHANGED <<limiterVars, otherThanRoute, admissionVars, authn>>

NextRoute ==
  \/ RouteFree
  \/ RouteRequest
  \/ RouteVerifyResolved
  \/ RouteVerifyRejected
  \/ RouteDecide
  \/ RouteReport
  \/ RouteProbeResolved
  \/ RouteProbeRejected
  \/ RouteTick

SpecRoute == InitRoute /\ [][NextRoute]_vars

\* A request from uploadLimiter to its response: router.post('/',
\* uploadLimiter, upload.array(...), handler) (file.routes.ts lines
\* 215-265).  The handler serves one request at a time here: the body of
\* the next admitted request is complete after the previous response.

\* lines 74-88 and 215-219: uploadLimiter's handler answers 429 and does not
\* call next; the POST handler runs for the arrivals uploadLimiter let
\* through.
EntersHandler_Throttled(a) == a.pc \in {"admitted", "throttled"}
EntersHandler(a) == a.pc = "admitted"

\* The operation submitted for file i of the request being served.
OpOf(i) == serving.first + i - 1

\* lines 229-236: the promise concurrencyLimiter returned for operation o
\* has resolved: the guarded call settled and its slot was given back.
ItemResolved_BeforeRelease(o) ==
  ops[o].pc \in {"running", "done"} /\ inv[ops[o].task].pc = "done"
ItemResolved(o) == ops[o].pc = "done"

\* lines 219-236: the handler starts for the request of arrival c, which
\* carries n files.
Handle(c, n) ==
  /\ serving = NoServing
  /\ EntersHandler(arr[c])
  /\ n <= Cardinality({o \in Ops : ops[o].pc = "idle"})
  /\ PostFiles(n)
  /\ serving' = [caller |-> c,
                 first |-> Cardinality({o \in Ops : ops[o].pc # "idle"}) + 1]
  /\ arr' = [arr EXCEPT ![c] = [@ EXCEPT !.pc = "serving"]]

\* lines 229-235: uploadedFiles.map has not yet submitted every file.
SubmissionPending ==
  /\ upload.pc = "processing"
  /\ \E i \in DOMAIN upload.files : ops[OpOf(i)].pc = "idle"

\* line 236: the result of file i reaches Promise.all.
ItemSettled(i) ==
  /\ upload.pc = "processing"
  /\ i \in DOMAIN upload.files /\ i \notin upload.settled
  /\ ops[OpOf(i)].pc # "idle"
  /\ ItemResolved(OpOf(i))
  /\ LET kind == inv[ops[OpOf(i)].task].result.kind IN
     CASE kind = "value" -> ProcessFileReturned(i)
       [] kind = "fallback" -> FallbackReturned(i)
       [] OTHER -> FallbackFailed(i)

ItemPending ==
  /\ upload.pc = "processing"
  /\ \/ upload.settled = DOMAIN upload.files
     \/ \E i \in DOMAIN upload.files :
          /\ i \notin upload.settled
          /\ ops[OpOf(i)].pc # "idle" /\ ItemResolved(OpOf(i))

\* The response was sent (lines 221, 245-255 or 263): the request is over.
Served ==
  /\ serving # NoServing
  /\ upload.pc \in {"responded", "error"}
  /\ upload' = NoUpload
  /\ serving' = NoServing
  /\ arr' = [arr EXCEPT ![serving.caller] = [@ EXCEPT !.pc = "answered"]]

\* The requests of one rate-limit window and one cache period (the clock
\* does not advance): they come through authenticate, so each carries a
\* user; the limit is 2, or 1 under high load; the raw operation fails
\* with a retryable error.
PipelineRequests == {r \in Requests : r.user # ""}
PipelineMessages == { <<"t">> }
PipelineConfigs == {c \in AdmissionConfigs : c.rateLimitMax = 2}
PipelineOptions == {o \in ResilientOptions : o.fallbackValue = "computed"}

InitPipeline ==
  /\ now = 0
  /\ cfg \in PipelineConfigs
  /\ cachedLimit = <<>>
  /\ isCheckingMetrics = FALSE
  /\ calls = [c \in Callers |-> NoCall]
  /\ samples = 0
  /\ retryParked
  /\ ropts \in PipelineOptions
  /\ breaker = NewBreaker
  /\ inv = [c \in Tasks |-> NoInv]
  /\ fires = 0
  /\ InitGate
  /\ InitAdmission
  /\ appParked

\* A continuation is ready; Node runs it before the next request, timer or
\* I/O callback.
PipelinePending ==
  DecisionPending \/ SubmissionPending \/ ContinuationPending \/ ItemPending

pipelineOthers == <<breakers, health, users, reg, registrations, authn>>

PipelineArrive ==
  /\ ~PipelinePending
  /\ \E c \in Callers, req \in PipelineRequests : Arrive(c, req)
  /\ UNCHANGED <<retryVars, resilientVars, gateVars, appVars>>
PipelineDecide ==
  /\ \E c \in Callers : Decide(c)
  /\ UNCHANGED <<retryVars, resilientVars, gateVars, appVars>>
PipelineReport ==
  /\ \E c \in Callers : Report(c)
  /\ UNCHANGED <<retryVars, resilientVars, gateVars, appVars>>
PipelineProbeResolved ==
  /\ ~PipelinePending
  /\ \E c \in Callers : ProbeResolved(c)
  /\ UNCHANGED <<retryVars, resilientVars, gateVars, admissionVars, appVars>>
PipelineProbeRejected ==
  /\ ~PipelinePending
  /\ \E c \in Callers : ProbeRejected(c)
  /\ UNCHANGED <<retryVars, resilientVars, gateVars, admissionVars, appVars>>
PipelineHandle ==
  /\ ~PipelinePending
  /\ \E c \in Callers, n \in 0..MaxFiles : Handle(c, n)
  /\ UNCHANGED <<now, limiterVars, retryVars, resilientVars, gate, ops, hits,
                 arrivals, pipelineOthers>>
PipelineSubmit ==
  /\ SubmissionPending
  /\ \E o \in Ops : GateSubmit(o)
  /\ UNCHANGED <<now, limiterVars, retryVars, resilientVars, admissionVars,
                 appVars, serving>>
PipelineStart ==
  /\ ~SubmissionPending
  /\ \E o \in Ops, c \in Tasks, fbOk \in BOOLEAN : GateStart(o, c, fbOk)
  /\ UNCHANGED <<now, limiterVars, retryInput, ropts, admissionVars, appVars,
                 serving>>
PipelineRelease ==
  /\ \E o \in Ops : GateRelease(o)
  /\ UNCHANGED <<now, limiterVars, retryVars, resilientVars, admissionVars,
                 appVars, serving>>
PipelineSettled ==
  /\ \E c \in Tasks, fbOk \in BOOLEAN : WrappedSettled(c, fbOk)
  /\ UNCHANGED <<now, limiterVars, routesVars, retryInput, ropts>>
PipelineFnResolved ==
  /\ ~PipelinePending
  /\ \E c \in Tasks : FnResolved(c)
  /\ UNCHANGED <<now, limiterVars, routesVars, retryInput, resilientVars>>
PipelineFnRejected ==
  /\ ~PipelinePending
  /\ \E c \in Tasks, message \in PipelineMessages : FnRejected(c, message)
  /\ UNCHANGED <<now, limiterVars, routesVars, retryInput, resilientVars>>
PipelineSleepElapsed ==
  /\ ~PipelinePending
  /\ \E c \in Tasks : SleepElapsed(c)
  /\ UNCHANGED <<now, limiterVars, routesVars, retryInput, resilientVars>>
PipelineItem ==
  /\ \E i \in 1..MaxFiles : ItemSettled(i)
  /\ UNCHANGED <<now, limiterVars, retryVars, resilientVars, gateVars,
                 admissionVars, pipelineOthers>>
PipelineRespond ==
  /\ Respond
  /\ UNCHANGED <<now, limiterVars, retryVars, resilientVars, gateVars,
                 admissionVars, pipelineOthers>>
PipelineServed ==
  /\ ~PipelinePending
  /\ Served
  /\ UNCHANGED <<now, limiterVars, retryVars, resilientVars, gate, ops, hits,
                 arrivals, pipelineOthers>>

NextPipeline ==
  \/ PipelineArrive
  \/ PipelineDecide
  \/ PipelineReport
  \/ PipelineProbeResolved
  \/ PipelineProbeRejected
  \/ PipelineHandle
  \/ PipelineSubmit
  \/ PipelineStart
  \/ PipelineRelease
  \/ PipelineSettled
  \/ PipelineFnResolved
  \/ PipelineFnRejected
  \/ PipelineSleepElapsed
  \/ PipelineItem
  \/ PipelineRespond
  \/ PipelineServed

SpecPipeline == InitPipeline /\ [][NextPipeline]_vars

\* ------------------------------------------------------------------------
\* Properties of DynamicRateLimiterService (checked under SpecLimiter)
\* ------------------------------------------------------------------------
Probing == {c \in Callers : calls[c].pc = "awaiting"}

\* C1: single-flight.  In every reachable state at most one caller of
\* getCurrentLimit() is awaiting a metrics probe: a caller that finds
\* isCheckingMetrics set returns without starting a second probe.
C1_SingleFlight == Cardinality(Probing) <= 1

\* A probe is in flight and another caller, arriving meanwhile, has returned
\* through the in-progress branch.
C1_Witness ==
  \E c1, c2 \in Callers :
    /\ calls[c1].pc = "awaiting"
    /\ calls[c2].pc = "returned" /\ calls[c2].kind = "inprogress"
    /\ calls[c2].t >= calls[c1].t

\* C2 (as stated): take a successful recomputation p, entered at p.t.  Every
\* other call entered in the TTL window [p.t, p.t + cacheDurationMs), whether
\* it ran after p or concurrently with it, took no sample of its own and
\* returned the value p returned.
C2_Original ==
  \A p, c \in Callers :
    ( /\ p # c
      /\ calls[p].pc = "returned" /\ calls[p].kind = "probe_ok"
      /\ calls[c].pc = "returned"
      /\ calls[p].t <= calls[c].t
      /\ calls[c].t < calls[p].t + cfg.cacheDurationMs )
    => ( /\ calls[c].ret = calls[p].ret
         /\ calls[c].kind \notin {"probe_ok", "probe_fail"} )

\* C2 (amended): once a recomputation has cached its value, every call that
\* enters while that value is fresh (now - timestamp < cacheDurationMs)
\* takes no metrics sample and returns the cached limit; hence all calls
\* served from one cache entry return the identical value, the one the
\* recomputation returned.
C2_ServedFromCache ==
  /\ [](\A c1, c2 \in Callers :
          ( /\ calls[c1].kind = "cache" /\ calls[c2].kind \in {"cache", "probe_ok"}
            /\ (IF calls[c2].kind = "cache" THEN calls[c2].ts ELSE calls[c2].t)
                 = calls[c1].ts )
          => calls[c1].ret = calls[c2].ret)
  /\ [][ ( /\ cachedLimit # <<>>
           /\ now - cachedLimit[1].timestamp < cfg.cacheDurationMs )
         => ( /\ samples' = samples
              /\ cachedLimit' = cachedLimit
              /\ \A c \in Callers :
                   calls'[c] # calls[c] =>
                     /\ calls'[c].pc = "returned"
                     /\ calls'[c].ret = cachedLimit[1].limit ) ]_vars

\* Two calls have been served from the same cache entry, after the
\* recomputation that produced it.
C2_Witness ==
  \E c1, c2 \in Callers :
    /\ c1 # c2
    /\ calls[c1].kind = "cache" /\ calls[c2].kind = "cache"
    /\ calls[c1].ts = calls[c2].ts
    /\ samples = 1

\* floor(a / b) for a >= 0, b > 0, stated without \div.
FloorOfRatio(a, b) == CHOOSE k \in 0..a : k * b <= a /\ a < (k + 1) * b

\* C3: a successful recomputation returns and caches
\* max(1, floor(baseMax * highLoadFactor)) when cpu% > cpuThreshold or
\* mem% > memThreshold (strictly) and baseMax otherwise; every cached limit
\* is an integer >= 1; baseMax=10, factor=0.5, threshold 80: cpu 85 gives 5,
\* cpu 50 (memory not above its threshold) gives 10.
C3_LimitFormula ==
  /\ \A c \in Callers :
       calls[c].kind = "probe_ok" =>
         LET high == \/ calls[c].cpu > cfg.cpuThresholdPercent
                     \/ calls[c].mem > cfg.memoryThresholdPercent
             reduced == Max(1, FloorOfRatio(cfg.rateLimitMax * cfg.highLoadLimitFactorPct, 100))
         IN /\ calls[c].ret = (IF high THEN reduced ELSE cfg.rateLimitMax)
            /\ (cachedLimit # <<>> /\ cachedLimit[1].timestamp = calls[c].t)
                 => cachedLimit[1].limit = calls[c].ret
            /\ ( /\ cfg.rateLimitMax = 10 /\ cfg.highLoadLimitFactorPct = 50
                 /\ cfg.cpuThresholdPercent = 80 )
               => /\ calls[c].cpu = 85 => calls[c].ret = 5
                  /\ (calls[c].cpu = 50 /\ ~(calls[c].mem > cfg.memoryThresholdPercent))
                       => calls[c].ret = 10
  /\ cachedLimit # <<>> =>
       /\ cachedLimit[1].limit \in Nat
       /\ cachedLimit[1].limit >= 1

\* A recomputation under high CPU load has cached the reduced limit 5.
C3_Witness ==
  \E c \in Callers :
    /\ calls[c].kind = "probe_ok" /\ calls[c].cpu = 85
    /\ cfg.rateLimitMax = 10 /\ cfg.highLoadLimitFactorPct = 50
    /\ cachedLimit # <<>> /\ cachedLimit[1].limit = 5
    /\ cachedLimit[1].timestamp = calls[c].t

\* ------------------------------------------------------------------------
\* Properties of retryWithBackoff (checked under SpecRetry)
\* ------------------------------------------------------------------------
\* An error the loop may retry: no filter configured, or the filter accepts it.
Retryable(opts, message) ==
  \/ "retryableErrors" \notin DOMAIN opts
  \/ isRetryableError(message, opts.retryableErrors)

\* C9: with maxRetries >= 0 the operation is invoked at least once and at
\* most maxRetries + 1 times; a successful attempt ends the loop and its
\* value is the result; if every attempt fails with a retryable error there
\* are exactly maxRetries + 1 attempts (4 for maxRetries = 3).
C9_AttemptCount ==
  LET r == retry[DirectTask]
      m == r.opts.maxRetries
      done == r.pc \in {"returned", "thrown"}
  IN (r.pc # "idle" /\ m >= 0) =>
       /\ r.invoked >= 1 /\ r.invoked <= m + 1
       /\ r.invoked = Len(r.log) + (IF r.pc = "awaitFn" THEN 1 ELSE 0)
       /\ \A i \in 1..Len(r.log) :
            r.log[i].ok => (i = Len(r.log) /\ r.pc = "returned" /\ r.value = i - 1)
       /\ r.pc = "returned" => r.log[Len(r.log)].ok
       /\ ( /\ r.pc = "thrown"
            /\ \A i \in 1..Len(r.log) : Retryable(r.opts, r.log[i].message) )
          => (r.invoked = m + 1 /\ (m = 3 => r.invoked = 4))

\* Four failed attempts with maxRetries = 3, every error retryable.
C9_Witness ==
  LET r == retry[DirectTask] IN
    /\ r.pc = "thrown" /\ r.opts.maxRetries = 3 /\ r.invoked = 4
    /\ \A i \in 1..Len(r.log) : Retryable(r.opts, r.log[i].message)

\* The message contains one of the literal substrings or matches one of
\* the case-insensitive patterns.
MatchesAny(message, patterns) ==
  \E k \in DOMAIN patterns :
    LET p == patterns[k].text
        m == IF patterns[k].kind = "string" THEN message ELSE ToLower(message)
        q == IF patterns[k].kind = "string" THEN p ELSE ToLower(p)
    IN \E i \in 1..(Len(m) - Len(q) + 1) : SubSeq(m, i, i + Len(q) - 1) = q

\* C11: with retryableErrors configured, a failed attempt whose message
\* matches none of them is the last attempt: that same error is thrown at
\* once, nothing is slept for it, whatever budget is left; on the first
\* attempt this means one invocation and no sleep.
C11_NonRetryableRethrown ==
  LET r == retry[DirectTask] IN
    \A i \in 1..Len(r.log) :
      ( /\ ~r.log[i].ok
        /\ "retryableErrors" \in DOMAIN r.opts
        /\ ~MatchesAny(r.log[i].message, r.opts.retryableErrors) )
      => /\ i = Len(r.log)
         /\ r.pc = "thrown"
         /\ r.error = [message |-> r.log[i].message, attempt |-> i - 1]
         /\ r.invoked = i
         /\ Len(r.slept) = i - 1

\* A retryable failure, then a non-retryable one with two retries left.
C11_Witness ==
  LET r == retry[DirectTask] IN
    /\ r.pc = "thrown" /\ r.opts.maxRetries = 3 /\ r.invoked = 2
    /\ "retryableErrors" \in DOMAIN r.opts /\ Len(r.opts.retryableErrors) > 0
    /\ r.log[1].message = <<"t">> /\ r.log[2].message = <<"x">>
    /\ r.error = [message |-> <<"x">>, attempt |-> 1]

\* C12: when all maxRetries + 1 attempts failed, the error thrown is the one
\* of the final attempt, and one sleep was made per earlier attempt, none
\* after the final one.
C12_LastErrorRethrown ==
  LET r == retry[DirectTask]
      m == r.opts.maxRetries
  IN ( /\ r.pc = "thrown" /\ m >= 0 /\ Len(r.log) = m + 1 )
     => /\ r.error = [message |-> r.log[m + 1].message, attempt |-> m]
        /\ Len(r.slept) = m
        /\ r.invoked = m + 1

\* Three failed attempts with maxRetries = 2, the last with a message
\* different from the first.
C12_Witness ==
  LET r == retry[DirectTask] IN
    /\ r.pc = "thrown" /\ r.opts.maxRetries = 2 /\ r.invoked = 3
    /\ r.log[1].message = <<"t">> /\ r.log[3].message = <<"N">>
    /\ r.error = [message |-> <<"N">>, attempt |-> 2]
    /\ Len(r.slept) = 2

\* C10: the delay slept before attempt i (i >= 1) is
\* min(initialDelayMs * backoffFactor^(i-1), maxDelayMs), so no delay
\* exceeds maxDelayMs; nothing is slept before attempt 0.
C10_DelayFormula ==
  LET r == retry[DirectTask] IN
    /\ r.attempt = 0 /\ r.pc = "awaitFn" => r.slept = <<>>
    /\ \A i \in 1..Len(r.slept) :
         /\ r.slept[i] =
              Min((r.opts.initialDelayMs * r.opts.backoffFactor2 ^ (i - 1)) \div 2 ^ (i - 1),
                  r.opts.maxDelayMs)
         /\ r.slept[i] <= r.opts.maxDelayMs

\* ------------------------------------------------------------------------
\* Properties of createResilientFunction (checked under SpecResilient)
\* ------------------------------------------------------------------------

\* A step in which the resilient function is called.
Fired == fires' = fires + 1

\* A step in which the wrapped call of task c settles.
SettledBy(c) == inv[c].pc = "inFlight" /\ inv'[c].pc = "done"

\* The half-open trial calls in flight.
Trials == {c \in Tasks : inv[c].pc = "inFlight" /\ inv[c].trial}

\* A step in which a call is let through to the wrapped function, which
\* makes its first attempt at the raw operation.
PassThroughStep ==
  \E c \in Tasks :
    /\ inv[c].pc # "inFlight"
    /\ inv'[c].pc = "inFlight" /\ inv'[c].passed
    /\ retry'[c].pc = "awaitFn" /\ retry'[c].invoked = 1

\* A step in which a call is short-circuited: no task's retried sequence
\* moves, and the call is done at once with the fallback (or null when a
\* computed fallback throws), or with CircuitOpen when there is none.
ShortCircuitStep ==
  /\ retry' = retry
  /\ \E c \in Tasks :
       /\ inv' = [inv EXCEPT ![c] = inv'[c]]
       /\ inv'[c].pc = "done" /\ ~inv'[c].passed
       /\ inv'[c].result.kind \in
            ( IF ropts.fallbackValue = "none" THEN {"error"}
              ELSE IF ropts.fallbackValue = "static" THEN {"fallback"}
              ELSE {"fallback", "null"} )
       /\ ropts.fallbackValue = "none" => inv'[c].result.error = CircuitOpen

\* C4: while the breaker is open every call of the resilient function is
\* short-circuited: the wrapped function is not invoked, and the call
\* resolves via the fallback if one is configured and fails with
\* CircuitOpen otherwise.
C4_OpenShortCircuits ==
  [][(breaker.state = "open" /\ Fired) => ShortCircuitStep]_vars

\* The breaker is open and a call that found it open failed with CircuitOpen.
C4_Witness ==
  /\ breaker.state = "open"
  /\ \E c \in Tasks :
       /\ inv[c].pc = "done" /\ inv[c].seen = "open" /\ ~inv[c].passed
       /\ inv[c].result.kind = "error" /\ inv[c].result.error = CircuitOpen

\* The outcomes of window w recorded less than rollingCountTimeout ago.
Recent(w) ==
  {i \in DOMAIN w : now - w[i].t < ropts.circuitBreaker.rollingCountTimeout}

\* C5: in the closed state every call passes through and its outcome is
\* recorded in the window; the breaker opens exactly when an outcome is
\* recorded and the failures among the outcomes recorded within the last
\* rollingCountTimeout are strictly more than errorThresholdPercentage
\* percent of them.
C5_ClosedOpensOnThreshold ==
  [][ breaker.state = "closed" =>
        /\ Fired => PassThroughStep
        /\ \A c \in Tasks : SettledBy(c) =>
             LET outcome == [t |-> now, ok |-> inv'[c].result.kind = "value"]
                 all == Append(breaker.window, outcome)
                 recent == Recent(all)
                 failed == {i \in recent : ~all[i].ok}
             IN /\ Len(breaker'.window) >= 1
                /\ breaker'.window[Len(breaker'.window)] = outcome
                /\ Len(breaker'.window) = Cardinality(recent)
                /\ breaker'.state = "open" <=>
                     Cardinality(failed) * 100 >
                       ropts.circuitBreaker.errorThresholdPercentage * Cardinality(recent)
                /\ breaker'.state = "open" => breaker'.openedAt = now
        /\ (\A c \in Tasks : ~SettledBy(c)) => breaker'.state = "closed"
    ]_vars

\* One success, then, after it left the window, one failure: the breaker
\* opened on the failure alone.
C5_Witness ==
  /\ breaker.state = "open" /\ breaker.openedAt = 1
  /\ breaker.stats = [successes |-> 1, failures |-> 1]
  /\ breaker.window = <<[t |-> 1, ok |-> FALSE]>>

\* C6: the breaker leaves open only for half-open and only once
\* resetTimeout has elapsed since it opened; half-open with no trial in
\* flight lets the next call through as the one trial; a trial that
\* succeeds closes the breaker with an empty window, a trial that fails
\* reopens it with the reset timer counting from that moment; nothing else
\* ends half-open.
C6_HalfOpenTrial ==
  [][ /\ (breaker.state = "open" /\ breaker'.state # "open") =>
           /\ breaker'.state = "halfOpen"
           /\ now - breaker.openedAt >= ropts.circuitBreaker.resetTimeout
      /\ (breaker.state = "halfOpen" /\ Trials = {} /\ Fired) =>
           /\ PassThroughStep
           /\ Cardinality(Trials') = 1
      /\ \A c \in Trials : SettledBy(c) =>
           IF inv'[c].result.kind = "value"
           THEN breaker'.state = "closed" /\ breaker'.window = <<>>
           ELSE breaker'.state = "open" /\ breaker'.openedAt = now
      /\ (breaker.state = "halfOpen" /\ breaker'.state # "halfOpen") =>
           \E c \in Trials : SettledBy(c)
    ]_vars

\* After a failure opened the breaker, the trial succeeded and closed it.
C6_Witness ==
  /\ breaker.state = "closed" /\ breaker.window = <<>>
  /\ breaker.stats.failures >= 1
  /\ \E c \in Tasks :
       inv[c].pc = "done" /\ inv[c].trial /\ inv[c].result.kind = "value"

\* C7: at most one trial call is in flight at any time, and a call made
\* in half-open while the trial is in flight is short-circuited as in open.
C7_OneTrial ==
  /\ [](Cardinality(Trials) <= 1)
  /\ [][(breaker.state = "halfOpen" /\ Trials # {} /\ Fired)
          => ShortCircuitStep]_vars

\* The trial is in flight and another call, made in half-open, was
\* short-circuited.
C7_Witness ==
  /\ breaker.state = "halfOpen"
  /\ \E c, d \in Tasks :
       /\ c \in Trials
       /\ inv[d].pc = "done" /\ inv[d].seen = "halfOpen" /\ ~inv[d].passed

\* C8: the breaker records one outcome per call let through, when the
\* retried sequence has returned or thrown: a success if it returned, a
\* failure if it threw; the attempts made in between, and every other
\* step, leave the breaker's counts and window unchanged.
C8_RetriesInvisible ==
  [][ /\ \A c \in Tasks : SettledBy(c) =>
           /\ inv[c].passed
           /\ retry[c].pc \in {"returned", "thrown"}
           /\ breaker'.stats =
                IF retry[c].pc = "returned"
                THEN [breaker.stats EXCEPT !.successes = @ + 1]
                ELSE [breaker.stats EXCEPT !.failures = @ + 1]
           /\ Len(breaker'.window) <= Len(breaker.window) + 1
      /\ (\A c \in Tasks : ~SettledBy(c)) =>
           /\ breaker'.stats = breaker.stats
           /\ breaker'.window = breaker.window
    ]_vars

\* A call that succeeded on its second attempt: one success, no failure.
C8_Witness ==
  /\ breaker.stats = [successes |-> 1, failures |-> 0]
  /\ \E c \in Tasks :
       /\ inv[c].pc = "done" /\ inv[c].passed
       /\ retry[c].pc = "returned" /\ retry[c].invoked = 2

\* ------------------------------------------------------------------------
\* Properties of concurrencyLimiter (checked under SpecUploads)
\* ------------------------------------------------------------------------
Running == {o \in Ops : ops[o].pc = "running"}
Started == {o \in Ops : ops[o].pc \in {"running", "done"}}

\* C13: never more slots held than the gate has, and never more calls of
\* the resilient function, or retried sequences, under way than that.
C13_AtMostK ==
  /\ gate.held <= gate.size
  /\ Cardinality({c \in Tasks : inv[c].pc = "inFlight"}) <= gate.size
  /\ Cardinality({c \in Tasks : retry[c].pc \in {"awaitFn", "sleeping"}}) <= gate.size

\* Every slot is held while at least two more operations wait.
C13_Witness ==
  /\ gate.held = gate.size
  /\ Len(gate.queue) >= 2
  /\ Cardinality({c \in Tasks : inv[c].pc = "inFlight"}) = gate.size

\* C14: the slots held are exactly those of the operations whose guarded
\* call has started and not yet been followed by its release; each such
\* operation has one call of the resilient function of its own, and every
\* call under way belongs to one; when every submitted operation is done
\* no slot is held and nobody waits.
C14_NoLeak ==
  /\ gate.held = Cardinality(Running)
  /\ fires = Cardinality(Started)
  /\ \A o, p \in Running : o # p => ops[o].task # ops[p].task
  /\ \A o \in Running : inv[ops[o].task].pc \in {"inFlight", "done"}
  /\ \A c \in Tasks :
       (inv[c].pc = "inFlight" \/ retry[c].pc \in {"awaitFn", "sleeping"})
         => \E o \in Running : ops[o].task = c
  /\ (\A o \in Ops : ops[o].pc \in {"idle", "done"}) =>
       (gate.held = 0 /\ gate.queue = <<>>)

\* Every operation is done, one with a value and one with an error thrown
\* after a retry; no slot is held.
C14_Witness ==
  /\ \A o \in Ops : ops[o].pc = "done"
  /\ \E o, p \in Ops : ops[o].exit = "value" /\ ops[p].exit = "error"
  /\ \E c \in Tasks : retry[c].pc = "thrown" /\ retry[c].invoked = 2
  /\ gate.held = 0 /\ gate.queue = <<>>

\* C15: operations acquire their slots in the order they were submitted
\* (operations are numbered in that order): none has started while an
\* earlier one still waits.
C15_ArrivalOrder ==
  /\ \A a, b \in Ops : (a < b /\ b \in Started) => a \in Started
  /\ \A i, j \in 1..Len(gate.queue) : i < j => gate.queue[i] < gate.queue[j]

\* Operation 3 was submitted while operation 2 waited; operation 2 has its
\* slot and operation 3 still waits.
C15_Witness ==
  /\ ops[3].ahead = 1 /\ ops[3].pc = "waiting"
  /\ ops[2].ahead = 1 /\ ops[2].pc = "running"
  /\ ops[1].pc = "done"

\* ------------------------------------------------------------------------
\* Properties of uploadLimiter (checked under SpecArrivals)
\* ------------------------------------------------------------------------
\* A step in which the arrival of caller c is admitted or rejected.
DecidedBy(c) == arr[c].pc = "max" /\ arr'[c].pc # "max"

\* What the identity has consumed in the window `now` falls in.
UsedInWindow(key) ==
  IF hits[key].window = now \div cfg.rateLimitWindow THEN hits[key].count ELSE 0

\* C16: an arrival is rejected exactly when its identity's consumption in
\* the active window is at or above the limit getCurrentLimit() returned
\* for it; otherwise it is admitted and that identity's counter, and no
\* other, goes up by one.  So an identity's count in a window never
\* exceeds the largest limit it was admitted under in that window.
C16_AdmissionRule ==
  /\ [](\A k \in Identities : hits[k].count <= hits[k].top)
  /\ [][ \A c \in Callers : DecidedBy(c) =>
           LET key == arr[c].key
               limit == calls[c].ret
               used == UsedInWindow(key)
           IN /\ arr'[c].pc = "handler" <=> used >= limit
              /\ arr'[c].pc = "admitted" <=> used < limit
              /\ arr'[c].pc = "admitted" =>
                   /\ UsedInWindow(key)' = used + 1
                   /\ \A k \in Identities \ {key} : hits'[k] = hits[k]
              /\ arr'[c].pc = "handler" => hits' = hits
              /\ arr'[c].limit = limit /\ arr'[c].used = used
    ]_vars

\* With rateLimitMax = 2 an arrival was rejected against the reduced limit
\* 1, which its identity had already consumed.
C16_Witness ==
  /\ cfg.rateLimitMax = 2
  /\ \E c \in Callers :
       /\ arr[c].pc \in {"handler", "throttled"}
       /\ arr[c].limit = 1 /\ arr[c].used = 1

\* C17: the limit reported for a rejected arrival is the limit its
\* consumption was compared with, and the window reported is windowMs.
C17_ReportedIsApplied ==
  \A c \in Callers : arr[c].pc = "throttled" =>
    /\ arr[c].reported = arr[c].limit
    /\ arr[c].windowMs = cfg.rateLimitWindow

\* An arrival rejected against the limit 2 and reported with the limit 1.
C17_Diverged ==
  \E c \in Callers :
    arr[c].pc = "throttled" /\ arr[c].limit = 2 /\ arr[c].reported = 1

\* C18: the first arrival of an identity in a new window is admitted
\* whatever the identity consumed before, and its counter restarts at one;
\* no counter belongs to a window later than the current one.
C18_FixedWindow ==
  /\ [](\A k \in Identities : hits[k].window <= now \div cfg.rateLimitWindow)
  /\ [][ \A c \in Callers :
           ( /\ DecidedBy(c)
             /\ hits[arr[c].key].window # now \div cfg.rateLimitWindow )
           => /\ arr'[c].pc = "admitted"
              /\ hits'[arr[c].key].window = now \div cfg.rateLimitWindow
              /\ hits'[arr[c].key].count = 1
    ]_vars

\* An identity rejected in window 0 and admitted, as the first of window 1.
C18_Witness ==
  \E c, d \in Callers :
    /\ arr[c].pc = "throttled" /\ arr[c].win = 0
    /\ arr[d].pc = "admitted" /\ arr[d].win = 1 /\ arr[d].used = 0
    /\ arr[d].key = arr[c].key
    /\ hits[arr[d].key] = [window |-> 1, count |-> 1, top |-> arr[d].limit]

\* ------------------------------------------------------------------------
\* Fallbacks of createResilientFunction (checked under SpecResilient)
\* ------------------------------------------------------------------------
\* The call of task c is done and its protected path failed: it was
\* short-circuited, or its retried sequence threw.
PathFailed(c) ==
  /\ inv[c].pc = "done"
  /\ ~inv[c].passed \/ retry[c].pc = "thrown"

\* C19: with a fallback configured, a call whose protected path failed
\* resolves instead of failing: to the static value, or to what the
\* fallback function returned when called with the call's own arguments;
\* no error reaches the caller.
C19_FallbackValue ==
  \A c \in Tasks :
    (PathFailed(c) /\ ropts.fallbackValue # "none") =>
      /\ inv[c].result.kind # "error"
      /\ inv[c].result.error = NoError
      /\ ropts.fallbackValue = "static" =>
           (inv[c].result.kind = "fallback" /\ inv[c].result.fb = "static")
      /\ ropts.fallbackValue = "computed" =>
           /\ inv[c].result.fb \in {"returned", "threw"}
           /\ inv[c].result.fb = "returned" =>
                (inv[c].result.kind = "fallback" /\ inv[c].result.args = c)

\* Retries exhausted (two attempts), and the fallback function, called
\* with the arguments of the call, gave the result.
C19_Witness ==
  /\ ropts.fallbackValue = "computed"
  /\ \E c \in Tasks :
       /\ inv[c].pc = "done" /\ inv[c].passed
       /\ retry[c].pc = "thrown" /\ retry[c].invoked = 2
       /\ inv[c].result.kind = "fallback" /\ inv[c].result.args = c

\* C20: when the computed fallback throws, the call resolves to null and
\* neither the fallback's error nor the original one reaches the caller.
C20_FallbackThrows ==
  \A c \in Tasks :
    (inv[c].pc = "done" /\ inv[c].result.fb = "threw") =>
      /\ PathFailed(c)
      /\ inv[c].result.kind = "null"
      /\ inv[c].result.error = NoError

\* The breaker was open, the fallback function threw, the call gave null.
C20_Witness ==
  \E c \in Tasks :
    /\ inv[c].pc = "done" /\ inv[c].seen = "open"
    /\ inv[c].result.fb = "threw" /\ inv[c].result.kind = "null"

\* C21: with no fallback configured, a call whose protected path failed
\* fails with the error of that path, unchanged: CircuitOpen when it was
\* short-circuited, the error of the last attempt when its retried
\* sequence threw.
C21_ErrorPropagates ==
  \A c \in Tasks :
    (PathFailed(c) /\ ropts.fallbackValue = "none") =>
      /\ inv[c].result.kind = "error"
      /\ inv[c].result.fb = "none"
      /\ ~inv[c].passed => inv[c].result.error = CircuitOpen
      /\ inv[c].passed =>
           LET r == retry[c] IN
             /\ inv[c].result.error = r.error
             /\ r.error = [message |-> r.log[Len(r.log)].message,
                           attempt |-> r.invoked - 1]

\* Both attempts failed with a retryable error and the second one's error
\* reached the caller.
C21_Witness ==
  /\ ropts.fallbackValue = "none"
  /\ \E c \in Tasks :
       /\ inv[c].pc = "done" /\ inv[c].passed
       /\ retry[c].pc = "thrown" /\ retry[c].invoked = 2
       /\ inv[c].result.kind = "error"
       /\ inv[c].result.error = [message |-> <<"t">>, attempt |-> 1]

\* C22: a call let through by the breaker whose retried sequence returned
\* resolves with the value of the attempt that succeeded; no fallback
\* takes part in it.
C22_NoFallbackOnSuccess ==
  \A c \in Tasks :
    (inv[c].pc = "done" /\ inv[c].passed /\ retry[c].pc = "returned") =>
      /\ inv[c].result.kind = "value"
      /\ inv[c].result.value = retry[c].value
      /\ inv[c].result.value = retry[c].invoked - 1
      /\ inv[c].result.fb = "none"
      /\ inv[c].result.error = NoError

\* With a fallback configured, a call succeeded on its second attempt and
\* gave that attempt's value.
C22_Witness ==
  /\ ropts.fallbackValue # "none"
  /\ \E c \in Tasks :
       /\ inv[c].pc = "done" /\ inv[c].passed
       /\ retry[c].pc = "returned" /\ retry[c].invoked = 2
       /\ inv[c].result.kind = "value" /\ inv[c].result.value = 1

\* C23: when the metrics sample fails, getCurrentLimit() returns
\* config.rateLimitMax whatever is cached, returns rather than throws, and
\* leaves cachedLimit exactly as it was; the entry is then still absent or
\* expired and isCheckingMetrics is cleared, and every call entering with no
\* fresh entry and no probe in progress takes a sample of its own.
C23_FailureNotCached ==
  [][ \A c \in Callers :
        /\ ( calls[c].pc = "awaiting" /\ calls'[c].kind = "probe_fail" )
           => ( /\ calls'[c].pc = "returned"
                /\ calls'[c].ret = cfg.rateLimitMax
                /\ cachedLimit' = cachedLimit
                /\ samples' = samples
                /\ ~isCheckingMetrics'
                /\ \/ cachedLimit' = <<>>
                   \/ now' - cachedLimit'[1].timestamp >= cfg.cacheDurationMs )
        /\ ( /\ calls[c].pc # "awaiting" /\ calls'[c] # calls[c]
             /\ ~isCheckingMetrics
             /\ \/ cachedLimit = <<>>
                \/ now - cachedLimit[1].timestamp >= cfg.cacheDurationMs )
           => ( /\ calls'[c].pc = "awaiting"
                /\ samples' = samples + 1
                /\ isCheckingMetrics' ) ]_vars

\* A sample has failed and a later call, finding nothing cached and no probe
\* in progress, is sampling again.
C23_Witness ==
  \E p, c \in Callers :
    /\ calls[p].pc = "returned" /\ calls[p].kind = "probe_fail"
    /\ calls[p].ret = cfg.rateLimitMax
    /\ calls[c].pc = "awaiting" /\ calls[c].t >= calls[p].t
    /\ samples = 2

\* C24: a getCurrentLimit() call that finds no fresh entry while
\* isCheckingMetrics is set returns in the same step, without awaiting the
\* probe and without sampling: it returns the limit of the last cached
\* entry, expired though it is, or config.rateLimitMax when nothing has
\* been cached, and changes neither cachedLimit nor isCheckingMetrics.
C24_InProgressReturnsAtOnce ==
  [][ \A c \in Callers :
        ( /\ calls[c].pc # "awaiting" /\ calls'[c] # calls[c]
          /\ isCheckingMetrics
          /\ \/ cachedLimit = <<>>
             \/ now - cachedLimit[1].timestamp >= cfg.cacheDurationMs )
        => ( /\ calls'[c].pc = "returned"
             /\ calls'[c].kind = "inprogress"
             /\ calls'[c].ret = IF cachedLimit = <<>> THEN cfg.rateLimitMax
                                ELSE cachedLimit[1].limit
             /\ samples' = samples
             /\ cachedLimit' = cachedLimit
             /\ isCheckingMetrics' = isCheckingMetrics
             /\ \A d \in Callers \ {c} : calls'[d] = calls[d] ) ]_vars

\* While a probe is in flight a call has returned the limit of an expired
\* entry, which differs from the configured maximum.
C24_Witness ==
  \E p, c \in Callers :
    /\ calls[p].pc = "awaiting"
    /\ calls[c].pc = "returned" /\ calls[c].kind = "inprogress"
    /\ cachedLimit # <<>>
    /\ calls[c].t - cachedLimit[1].timestamp >= cfg.cacheDurationMs
    /\ calls[c].ret = cachedLimit[1].limit
    /\ calls[c].ret # cfg.rateLimitMax

\* C25 (as stated): no call returns a cached limit whose age at the time of
\* the call is >= cacheDurationMs, and a call that finds an entry younger
\* than cacheDurationMs returns it without sampling.
C25_Original ==
  [][ \A c \in Callers :
        ( calls[c].pc # "awaiting" /\ calls'[c] # calls[c] /\ cachedLimit # <<>> )
        => ( /\ ( calls'[c].pc = "returned" /\ calls'[c].ret = cachedLimit[1].limit
                  /\ calls'[c].kind \in {"cache", "inprogress"} )
                => now - cachedLimit[1].timestamp < cfg.cacheDurationMs
             /\ now - cachedLimit[1].timestamp < cfg.cacheDurationMs
                => ( /\ calls'[c].pc = "returned"
                     /\ calls'[c].ret = cachedLimit[1].limit
                     /\ samples' = samples ) ) ]_vars

\* C25 (amended): a call that finds an entry younger than cacheDurationMs
\* returns it without sampling; a call that finds the entry aged
\* cacheDurationMs or more does not reuse it unless a recomputation is in
\* progress: with isCheckingMetrics clear it samples, and only with
\* isCheckingMetrics set does it return the expired limit.
C25_FreshOrInProgress ==
  [][ \A c \in Callers :
        ( calls[c].pc # "awaiting" /\ calls'[c] # calls[c] /\ cachedLimit # <<>> )
        => LET age == now - cachedLimit[1].timestamp IN
           /\ age < cfg.cacheDurationMs
              => ( /\ calls'[c].pc = "returned" /\ calls'[c].kind = "cache"
                   /\ calls'[c].ret = cachedLimit[1].limit
                   /\ samples' = samples /\ cachedLimit' = cachedLimit )
           /\ ( age >= cfg.cacheDurationMs /\ ~isCheckingMetrics )
              => ( calls'[c].pc = "awaiting" /\ samples' = samples + 1 )
           /\ ( age >= cfg.cacheDurationMs /\ calls'[c].pc = "returned" )
              => ( isCheckingMetrics /\ calls'[c].kind = "inprogress" ) ]_vars

\* One call was served from an entry younger than cacheDurationMs, and a
\* call entering when the entry is exactly cacheDurationMs old is sampling.
C25_Witness ==
  \E c, d \in Callers :
    /\ cachedLimit # <<>>
    /\ calls[c].pc = "returned" /\ calls[c].kind = "cache"
    /\ calls[c].ts = cachedLimit[1].timestamp
    /\ calls[c].t - calls[c].ts = cfg.cacheDurationMs - 1
    /\ calls[d].pc = "awaiting"
    /\ calls[d].t - cachedLimit[1].timestamp = cfg.cacheDurationMs

\* ------------------------------------------------------------------------
\* Properties of the upload handler's response (checked under SpecBatch)
\* ------------------------------------------------------------------------
FallbackItems == {i \in DOMAIN upload.response.results :
                    ~upload.response.results[i].processed}

\* C26: the response to a batch carries one result per submitted file, in
\* submission order, each the result that file settled with; failed.count
\* is the number of results with processed = false (the files answered by
\* the fallback), all other results being processed = true, and the failed
\* section is absent exactly when no file was answered by the fallback.
C26_BatchCounts ==
  upload.pc = "responded" =>
    LET rs == upload.response.results IN
    /\ Len(rs) = Len(upload.files)
    /\ \A i \in DOMAIN rs :
         /\ rs[i].filename = upload.files[i]
         /\ rs[i] = upload.results[i]
    /\ (upload.response.failed = <<>>) <=> (FallbackItems = {})
    /\ FallbackItems # {} =>
         /\ upload.response.failed[1].count = Cardinality(FallbackItems)
         /\ Cardinality({i \in DOMAIN rs : rs[i].processed})
              = Len(upload.files) - upload.response.failed[1].count

\* A batch of three or more files has been answered in which one file was
\* processed and two were answered by the fallback.
C26_Witness ==
  /\ upload.pc = "responded" /\ upload.response.status = 201
  /\ Len(upload.files) >= 3
  /\ Cardinality(FallbackItems) = 2
  /\ upload.response.failed # <<>>
  /\ upload.response.failed[1].count = 2

\* ------------------------------------------------------------------------
\* Properties of the breaker instances (checked under SpecBreakers)
\* ------------------------------------------------------------------------
\* The breakers that invocations of operation op have gone through.
BreakersUsedBy(op) ==
  {i \in DOMAIN breakers : breakers[i].op = op /\ breakers[i].fired > 0}

\* C27: each protected operation has one CircuitBreaker for the lifetime of
\* the process: all invocations of resilientProcessFile go through one
\* breaker and all invocations of the external-API health check go through
\* one breaker, so that a later invocation meets a breaker that has counted
\* the earlier ones.
C27_OneBreakerPerOperation ==
  \A op \in {"processFile", "apiCheck"} :
    Cardinality(BreakersUsedBy(op)) <= 1

\* ------------------------------------------------------------------------
\* Properties of the user store (checked under SpecRegistrations)
\* ------------------------------------------------------------------------
\* C28: after any sequence or interleaving of register calls the users
\* array holds no two users with the same username and no two users with
\* the same email.
C28_NoDuplicateUsers ==
  \A i, j \in DOMAIN users :
    i # j => ( /\ users[i].username # users[j].username
               /\ users[i].email # users[j].email )

\* ------------------------------------------------------------------------
\* Properties of authenticate (checked under SpecAuthenticate)
\* ------------------------------------------------------------------------
\* The header reads "Bearer", one space, then a token of at least one
\* character other than a space; the token ends at the next space or at the
\* end of the header.
BearerForm(header) ==
  /\ Len(header) >= 3
  /\ header[1] = "Bearer" /\ header[2] = " " /\ header[3] # " "

\* The token of such a header: the characters from the third piece up to
\* the next space.
TokenEnd(header) ==
  IF \E k \in 3..Len(header) : header[k] = " "
  THEN (CHOOSE k \in 3..Len(header) :
          header[k] = " " /\ \A m \in 3..(k - 1) : header[m] # " ") - 1
  ELSE Len(header)
BearerToken(header) == SubSeq(header, 3, TokenEnd(header))

\* C29: authenticate calls next() only for a request whose Authorization
\* header reads 'Bearer <token>' and whose token verifyToken accepted, and
\* then req.user holds the claims of that token and no response was sent;
\* a request without header, with another format, or whose token is not
\* accepted is answered 401 and next() is not called.
C29_NextOnlyWhenVerified ==
  /\ authn.nextCalled =>
       /\ authn.hasHeader /\ BearerForm(authn.header)
       /\ BearerToken(authn.header) \in SignedTokens
       /\ authn.user = Decoded(BearerToken(authn.header))
       /\ authn.status = 0
  /\ authn.pc = "verifying" =>
       /\ authn.hasHeader /\ BearerForm(authn.header)
       /\ authn.token = BearerToken(authn.header)
  /\ authn.pc = "responded" =>
       /\ authn.status = 401 /\ ~authn.nextCalled /\ authn.user = NoUser
  /\ ( authn.pc # "idle" /\ ~(authn.hasHeader /\ BearerForm(authn.header)) )
       => ( authn.pc = "responded" /\ authn.status = 401 )
  /\ ( authn.pc \notin {"idle", "verifying"}
       /\ authn.hasHeader /\ BearerForm(authn.header)
       /\ BearerToken(authn.header) \notin SignedTokens )
       => ( authn.pc = "responded" /\ authn.status = 401 )

\* A request with header 'Bearer good' has been let through to next().
C29_Witness ==
  /\ authn.nextCalled
  /\ authn.header = <<"Bearer", " ", "good">>
  /\ authn.user = Decoded(<<"good">>)

\* ------------------------------------------------------------------------
\* Identities of uploadLimiter (checked under SpecArrivals)
\* ------------------------------------------------------------------------
\* The identity of a request: the authenticated principal's id, else the
\* network origin, else none that is known.
Principal(req) ==
  CASE req.user # "" -> req.user
    [] req.user = "" /\ req.ip # "" -> req.ip
    [] OTHER -> "unknown-key"

\* C30: counters are kept per identity, the identity of an arrival being
\* its authenticated principal, else its network origin.  A counter changes
\* only in a step that admits an arrival of its own identity, and the
\* decision on an arrival reads its own identity's counter only: it is
\* rejected exactly when that identity's consumption in the window is at or
\* above the limit, whatever the other identities have consumed.
C30_PerIdentityCounters ==
  /\ [](\A c \in Callers :
          arr[c].pc # "none" => arr[c].key = Principal(arr[c].req))
  /\ [][ /\ \A k \in Identities :
             hits'[k] # hits[k] =>
               \E c \in Callers :
                 /\ DecidedBy(c) /\ arr'[c].pc = "admitted"
                 /\ Principal(arr[c].req) = k
         /\ \A c \in Callers : DecidedBy(c) =>
               LET own == Principal(arr[c].req) IN
               /\ arr'[c].used = UsedInWindow(own)
               /\ arr'[c].pc = "admitted" <=> UsedInWindow(own) < calls[c].ret
               /\ \A k \in Identities \ {own} : hits'[k] = hits[k]
    ]_vars

\* One identity has used up its limit and was rejected, and an arrival of
\* another identity, decided later in the same window, was admitted as
\* that identity's first.
C30_Witness ==
  \E c, d \in Callers :
    /\ arr[c].pc \in {"handler", "throttled"} /\ arr[d].pc = "admitted"
    /\ arr[c].req.user = "user" /\ arr[d].req.user = ""
    /\ arr[c].key = "user" /\ arr[d].key = "ip"
    /\ arr[c].win = arr[d].win
    /\ arr[c].used >= 1 /\ arr[d].used = 0
    /\ arr[d].limit = arr[c].limit
    /\ hits["ip"].count = 1 /\ hits["user"].count = arr[c].used

\* ------------------------------------------------------------------------
\* The retryable-error filter without patterns (checked under SpecRetry)
\* ------------------------------------------------------------------------
\* C32: when retryableErrors is absent or is an empty list no failure is
\* filtered out: a failed attempt is followed by a sleep and another
\* attempt while attempts remain, so an activation that throws has made
\* maxRetries + 1 attempts.
C32_NoPatternsRetryAll ==
  \A t \in Tasks :
    LET r == retry[t] IN
    ( /\ r.pc = "thrown" /\ r.invoked >= 1
      /\ \/ "retryableErrors" \notin DOMAIN r.opts
         \/ r.opts.retryableErrors = <<>> )
    => r.invoked = r.opts.maxRetries + 1

\* ------------------------------------------------------------------------
\* The in-progress marker (checked under SpecLimiter)
\* ------------------------------------------------------------------------
\* C33: isCheckingMetrics is set exactly while a call is awaiting its
\* probe; the step that ends a probe, by success or by failure, clears it;
\* and a call that enters when no probe is executing and the cache is
\* absent or expired starts a probe of its own.
C33_MarkerTracksProbe ==
  /\ [](isCheckingMetrics <=> Probing # {})
  /\ [][ \A c \in Callers :
          /\ ( calls[c].pc = "awaiting" /\ calls'[c].pc = "returned" )
             => ( /\ calls'[c].kind \in {"probe_ok", "probe_fail"}
                  /\ ~isCheckingMetrics' )
          /\ ( /\ calls[c].pc # "awaiting" /\ calls'[c] # calls[c]
               /\ Probing = {}
               /\ \/ cachedLimit = <<>>
                  \/ now - cachedLimit[1].timestamp >= cfg.cacheDurationMs )
             => ( calls'[c].pc = "awaiting" /\ isCheckingMetrics' ) ]_vars

\* A probe has failed, and a call made afterwards is executing the next
\* probe with the marker set again.
C33_Witness ==
  /\ isCheckingMetrics
  /\ Cardinality(Probing) = 1
  /\ \E p \in Callers : calls[p].pc = "returned" /\ calls[p].kind = "probe_fail"

\* C36: the timestamp a successful recomputation caches is the time at which
\* the recomputing call entered getCurrentLimit(), not the time its probe
\* finished; the cached timestamp is never in the future and never
\* decreases from one cached entry to the next.
C36_ComputedAtEntry ==
  /\ [](cachedLimit # <<>> => cachedLimit[1].timestamp <= now)
  /\ [][ /\ \A c \in Callers :
             ( calls[c].pc = "awaiting" /\ calls'[c].kind = "probe_ok" )
             => ( /\ cachedLimit' # <<>>
                  /\ cachedLimit'[1].timestamp = calls[c].t
                  /\ cachedLimit'[1].limit = calls'[c].ret )
         /\ cachedLimit # <<>>
             => ( /\ cachedLimit' # <<>>
                  /\ cachedLimit'[1].timestamp >= cachedLimit[1].timestamp ) ]_vars

\* The only probe so far has succeeded; a call that entered later than the
\* recomputing call found that probe still running, so the probe finished
\* after the cached timestamp.
C36_Witness ==
  \E c, d \in Callers :
    /\ samples = 1 /\ cachedLimit # <<>>
    /\ calls[c].pc = "returned" /\ calls[c].kind = "probe_ok"
    /\ cachedLimit[1].timestamp = calls[c].t
    /\ calls[d].pc = "returned" /\ calls[d].kind = "inprogress"
    /\ calls[d].t > calls[c].t
    /\ now > cachedLimit[1].timestamp

\* ------------------------------------------------------------------------
\* The breaker's state changes (checked under SpecResilient)
\* ------------------------------------------------------------------------
BreakerEdges ==
  { <<"closed", "open">>, <<"open", "halfOpen">>,
    <<"halfOpen", "closed">>, <<"halfOpen", "open">> }

\* C35: the breaker starts closed (while nothing has been fired it is
\* closed) and changes state only along closed -> open, open -> halfOpen,
\* halfOpen -> closed and halfOpen -> open; it leaves open only when
\* resetTimeout has elapsed since it opened.
C35_BreakerEdges ==
  /\ [](fires = 0 => breaker.state = "closed")
  /\ [](breaker.state \in {"closed", "open", "halfOpen"})
  /\ [][ /\ breaker'.state # breaker.state =>
               <<breaker.state, breaker'.state>> \in BreakerEdges
         /\ ( breaker.state = "open" /\ breaker'.state # "open" )
             => now - breaker.openedAt >= ropts.circuitBreaker.resetTimeout
         /\ ( breaker.state # "open" /\ breaker'.state = "open" )
             => breaker'.openedAt = now ]_vars

\* The breaker opened, resetTimeout elapsed, and it is half-open with its
\* trial call under way.
C35_Witness ==
  /\ breaker.state = "halfOpen"
  /\ breaker.trial # 0
  /\ now - breaker.openedAt >= ropts.circuitBreaker.resetTimeout
  /\ breaker.stats.failures >= 1

\* ------------------------------------------------------------------------
\* Termination (checked under SpecTermination)
\* ------------------------------------------------------------------------
\* C39: provided every raw attempt settles and every backoff sleep elapses,
\* every activation of retryWithBackoff returns or throws, and every
\* invocation of the resilient function completes, with the operation's
\* value, a fallback value, null or an error.
C39_Terminates ==
  \A c \in Tasks :
    /\ (retry[c].pc \in {"awaitFn", "sleeping"})
          ~> (retry[c].pc \in {"returned", "thrown"})
    /\ (inv[c].pc = "inFlight")
          ~> ( /\ inv[c].pc = "done"
               /\ inv[c].result.kind \in {"value", "fallback", "null", "error"} )

\* With maxRetries = 3 an invocation has completed after its activation
\* made all four attempts, with three backoff sleeps between them.
C39_Witness ==
  \E c \in Tasks :
    /\ inv[c].pc = "done" /\ inv[c].passed
    /\ retry[c].opts.maxRetries = 3
    /\ retry[c].invoked = 4 /\ Len(retry[c].slept) = 3
    /\ retry[c].pc = "thrown"

\* ------------------------------------------------------------------------
\* The gate across requests (checked under SpecUploads)
\* ------------------------------------------------------------------------
\* C34: the gate is one pool for all requests: the operations holding a
\* slot, and the invocations of the resilient function under way, counted
\* over all requests in progress together, never exceed the gate's size;
\* and an operation of a later request has not started while an operation
\* of an earlier request still waits.
C34_SharedPool ==
  /\ Cardinality({o \in Ops : ops[o].pc = "running"}) <= gate.size
  /\ Cardinality({c \in Tasks : inv[c].pc = "inFlight"}) <= gate.size
  /\ \A a, b \in Ops :
       ( BatchOf(a) < BatchOf(b) /\ ops[a].pc = "waiting" )
         => ops[b].pc \in {"idle", "waiting"}
  /\ \A a, b \in Ops :
       ( /\ BatchOf(a) < BatchOf(b)
         /\ ops[a].pc = "waiting" /\ ops[b].pc = "waiting" )
         => \E i, j \in 1..Len(gate.queue) :
              i < j /\ gate.queue[i] = a /\ gate.queue[j] = b

\* Operations of both requests hold the two slots of the gate while a
\* further operation of the second request waits.
C34_Witness ==
  /\ gate.size = 2 /\ gate.held = 2
  /\ \E a, b, w \in Ops :
       /\ BatchOf(a) = 1 /\ BatchOf(b) = 2 /\ BatchOf(w) = 2
       /\ ops[a].pc = "running" /\ ops[b].pc = "running"
       /\ ops[w].pc = "waiting"

\* C37: once every item of a batch has resolved the handler answers with
\* the batch response, never with an error, whatever the items resolved
\* with; an item whose fallback threw (result null) is counted among the
\* failed items.
C37_NullItemReported ==
  /\ upload.pc # "error"
  /\ ( upload.pc = "responded" /\ upload.response.status = 201 ) =>
       LET rs == upload.response.results
           failed == {i \in DOMAIN rs : rs[i].isNull \/ ~rs[i].processed}
       IN /\ Len(rs) = Len(upload.files)
          /\ failed # {} => ( /\ upload.response.failed # <<>>
                              /\ upload.response.failed[1].count = Cardinality(failed) )

\* C38: on the file route authentication precedes admission: a step that
\* answers a request 401 starts no admission check and changes no counter,
\* an admission check starts only in a step where authenticate verified
\* the token and called next, and every arrival at the admission check is
\* keyed by the id of its authenticated principal.
C38_AuthenticationFirst ==
  /\ [](\A c \in Callers :
          arr[c].pc # "none" =>
            /\ arr[c].req.user # ""
            /\ arr[c].key = arr[c].req.user
            /\ arr[c].key = Decoded(<<"good">>).id)
  /\ [](\A k \in Identities : hits[k].count > 0 => k = Decoded(<<"good">>).id)
  /\ [][ ( authn'.status = 401 /\ authn.status # 401 )
           => ( arr' = arr /\ hits' = hits /\ arrivals' = arrivals ) ]_vars
  /\ [][ arrivals' # arrivals
           => ( /\ authn.pc = "verifying" /\ authn'.pc = "passed"
                /\ authn'.nextCalled /\ arrivals' = arrivals + 1 ) ]_vars
C38_Witness ==
  /\ authn.status = 401
  /\ \E c \in Callers : arr[c].pc = "throttled" /\ arr[c].key = "id-of"
  /\ hits["id-of"].count > 0
  /\ hits["ip"].count = 0

\* C31: admission precedes all work.  The request being served is that
\* of an arrival uploadLimiter admitted; every operation waiting for or
\* holding a slot and every invocation of the resilient function belongs to
\* it; a step in which an arrival is rejected changes neither the gate nor
\* the invocations nor the handler; and when the response is produced no
\* slot is held any more.
C31_AdmissionPrecedesWork ==
  /\ [](serving # NoServing =>
          /\ arr[serving.caller].pc = "serving"
          /\ ~Throttles(arr[serving.caller].used, arr[serving.caller].limit))
  /\ [](\A c \in Callers :
          arr[c].pc \in {"handler", "throttled"} => serving.caller # c)
  /\ [](\A o \in Ops :
          ops[o].pc \in {"waiting", "running"} =>
            /\ serving # NoServing
            /\ upload.pc = "processing"
            /\ \E i \in DOMAIN upload.files : OpOf(i) = o)
  /\ [](\A t \in Tasks :
          inv[t].pc = "inFlight" =>
            \E o \in Ops : ops[o].pc = "running" /\ ops[o].task = t)
  /\ [][ ( \E c \in Callers :
             /\ arr[c].pc = "max"
             /\ arr'[c].pc \in {"handler", "throttled"} )
           => UNCHANGED <<gate, ops, serving, inv, fires, retry, upload>> ]_vars
  /\ [][ ( gate'.held > gate.held \/ fires' > fires )
           => ( /\ serving # NoServing
                /\ arr[serving.caller].pc = "serving"
                /\ arr[serving.caller].used < arr[serving.caller].limit ) ]_vars
  /\ [](upload.pc \in {"responded", "error"} =>
          /\ gate.held = 0
          /\ \A o \in Ops : ops[o].pc \in {"idle", "done"})
C31_Witness ==
  /\ upload.pc = "responded" /\ upload.response.status = 201
  /\ Len(upload.files) = 2
  /\ serving # NoServing
  /\ \E c \in Callers : arr[c].pc = "throttled"
  /\ \E o \in Ops : ops[o].pc = "done" /\ ops[o].ahead > 0

====
